---------------------------- MODULE Spec2Model ----------------------------
(***************************************************************************)
(* Materiality extraction and scoring pipeline of app/domain/logic.py.     *)
(*                                                                         *)
(* Text is a sequence of characters.  A Hangul syllable is written as one  *)
(* romanised string ("bal" for U+BC1C), a Latin letter as itself, so that  *)
(* Python's `in`, str.count, str.strip, slicing and f-string formatting are *)
(* modelled on the characters and not on whole words.                      *)
(*                                                                         *)
(* Numbers: a confidence c is held as the integer c * Scale, a priority    *)
(* score p as p * Scale * 10, a weight w as w * 10, and a reported         *)
(* (two-decimal) aggregate score s as s * 100.  The arithmetic is exact    *)
(* rational arithmetic on these units.                                     *)
(***************************************************************************)
EXTENDS Integers, Sequences, FiniteSets, TLC

VARIABLES
    UNIVERSAL_ESG_ISSUES, \* the issue catalog the process has loaded
    elements,             \* pipeline input: the segment list
    runs,                 \* results of the pipeline runs made on `elements`
    dd_pc, dd_issues, dd_unique, dd_twice,      \* remove_duplicate_issues harness
    cf_pc, cf_args, cf_confidence,              \* calculate_enhanced_confidence harness
    ag_pc, ag_args, ag_result,                  \* calculate_overall_confidence_enhanced harness
    kw_pc, kw_args, kw_result,                  \* get_dynamic_keywords_for_issue harness
    rk_pc, rk_args, rk_result,                  \* apply_industry_priority harness
    dt_text, dt_added, dt_prev, dt_last,        \* detect_industry_from_text on a growing text
    mg_pc, mg_args, mg_result,                  \* merge_extraction_results harness
    sh_pc, sh_elems, sh_local, sh_seed,         \* concurrent pipeline runs of one process
    up_pc, up_pdf, up_elements, up_raised, up_response, up_temp,  \* /upload-fast request
    tp_pc, tp_args, tp_result,                  \* ranking and result assembly of the pipeline
    sc_pc, sc_args, sc_result,                  \* element loop on designed segments
    qm_limits, qm_usage, qm_lock, qm_pc, qm_req,    \* cost manager shared by requests
    pf_pc, pf_in, pf_temp, pf_out,              \* process_uploaded_file request
    vs_pc, vs_pages, vs_i, vs_all, vs_seen, vs_fallback, vs_result  \* vision issue loop

vars == << UNIVERSAL_ESG_ISSUES, elements, runs,
           dd_pc, dd_issues, dd_unique, dd_twice,
           cf_pc, cf_args, cf_confidence,
           ag_pc, ag_args, ag_result,
           kw_pc, kw_args, kw_result,
           rk_pc, rk_args, rk_result,
           dt_text, dt_added, dt_prev, dt_last,
           mg_pc, mg_args, mg_result,
           sh_pc, sh_elems, sh_local, sh_seed,
           up_pc, up_pdf, up_elements, up_raised, up_response, up_temp,
           tp_pc, tp_args, tp_result,
           sc_pc, sc_args, sc_result,
           qm_limits, qm_usage, qm_lock, qm_pc, qm_req,
           pf_pc, pf_in, pf_temp, pf_out,
           vs_pc, vs_pages, vs_i, vs_all, vs_seen, vs_fallback, vs_result >>

rk_vars == << rk_pc, rk_args, rk_result >>
dt_vars == << dt_text, dt_added, dt_prev, dt_last >>
mg_vars == << mg_pc, mg_args, mg_result >>
sh_vars == << sh_pc, sh_elems, sh_local, sh_seed >>
up_vars == << up_pc, up_pdf, up_elements, up_raised, up_response, up_temp >>
tp_vars == << tp_pc, tp_args, tp_result >>
sc_vars == << sc_pc, sc_args, sc_result >>
qm_vars == << qm_limits, qm_usage, qm_lock, qm_pc, qm_req >>
pf_vars == << pf_pc, pf_in, pf_temp, pf_out >>
vs_vars == << vs_pc, vs_pages, vs_i, vs_all, vs_seen, vs_fallback, vs_result >>
rest_vars == << sc_vars, qm_vars, pf_vars, vs_vars >>
pipeline_vars == << UNIVERSAL_ESG_ISSUES, elements, runs >>
fn_vars == << dd_pc, dd_issues, dd_unique, dd_twice, cf_pc, cf_args, cf_confidence,
              ag_pc, ag_args, ag_result, kw_pc, kw_args, kw_result >>

\* Python's None where a page number is optional (page numbers count from 1)
None == 0 - 1

-----------------------------------------------------------------------------
(* Bounds of the model *)

MaxSegments == 2      \* longest segment list given to the pipeline
MaxRuns == 2          \* pipeline runs (processes) on one segment list
NumSeeds == 2         \* string-hash seeds a process may start with
MaxDedupLen == 3      \* longest candidate list given to the deduplicator
MaxAggLen == 3        \* longest ranked list given to the aggregator

(* Units *)
Scale == 24 * 100     \* confidence 1.0
Hundredth == Scale \div 100

-----------------------------------------------------------------------------
(* Python string and list primitives *)

Range(s) == { s[i] : i \in DOMAIN s }

Min(a, b) == IF a <= b THEN a ELSE b

\* `k in t` for strings
Contains(t, k) ==
    \/ k = << >>
    \/ \E i \in 1..(Len(t) - Len(k) + 1) :
          t[i] = k[1] /\ SubSeq(t, i, i + Len(k) - 1) = k

\* any(k in t for k in ks)
ContainsAny(t, ks) == \E j \in DOMAIN ks : Contains(t, ks[j])

RECURSIVE CountFrom(_, _, _)
CountFrom(t, k, i) ==
    LET found == { j \in i..(Len(t) - Len(k) + 1) :
                     t[j] = k[1] /\ SubSeq(t, j, j + Len(k) - 1) = k }
    IN  IF found = { } THEN 0
        ELSE LET first == CHOOSE j \in found : \A h \in found : j <= h
             IN  1 + CountFrom(t, k, first + Len(k))

\* t.count(k): non-overlapping occurrences, scanned from the left
Count(t, k) == IF Len(k) = 0 THEN Len(t) + 1 ELSE CountFrom(t, k, 1)

Whitespace == { " ", "\n", "\t" }

RECURSIVE LStrip(_)
LStrip(t) == IF t # << >> /\ Head(t) \in Whitespace THEN LStrip(Tail(t)) ELSE t

RECURSIVE RStrip(_)
RStrip(t) ==
    IF t # << >> /\ t[Len(t)] \in Whitespace THEN RStrip(SubSeq(t, 1, Len(t) - 1)) ELSE t

\* t.strip()
Strip(t) == RStrip(LStrip(t))

\* t[:n]
Take(t, n) == SubSeq(t, 1, Min(n, Len(t)))

RECURSIVE Join(_, _)
\* sep.join(ts)
Join(sep, ts) ==
    IF ts = << >> THEN << >>
    ELSE IF Len(ts) = 1 THEN ts[1]
    ELSE ts[1] \o sep \o Join(sep, Tail(ts))

RECURSIVE Flatten(_)
Flatten(ss) == IF ss = << >> THEN << >> ELSE Head(ss) \o Flatten(Tail(ss))

RECURSIVE SplitHead(_, _)
\* t.split(c)[0]
SplitHead(t, c) ==
    IF t = << >> \/ Head(t) = c THEN << >> ELSE << Head(t) >> \o SplitHead(Tail(t), c)

DigitChar(d) == << "0", "1", "2", "3", "4", "5", "6", "7", "8", "9" >>[d + 1]

RECURSIVE NatStr(_)
NatStr(n) == IF n < 10 THEN << DigitChar(n) >> ELSE NatStr(n \div 10) \o << DigitChar(n % 10) >>

\* str(x) for an optional int, as an f-string formats it
PyStr(x) == IF x = None THEN << "N", "o", "n", "e" >> ELSE NatStr(x)

RECURSIVE InsertDesc(_, _, _)
\* insert x after every element whose key is >= x's key
InsertDesc(sorted, x, key) ==
    IF sorted = << >> THEN << x >>
    ELSE IF Head(sorted)[key] >= x[key]
         THEN << Head(sorted) >> \o InsertDesc(Tail(sorted), x, key)
         ELSE << x >> \o sorted

RECURSIVE SortDescFrom(_, _, _, _)
SortDescFrom(s, i, acc, key) ==
    IF i > Len(s) THEN acc ELSE SortDescFrom(s, i + 1, InsertDesc(acc, s[i], key), key)

\* list.sort(key=lambda x: x[key], reverse=True): stable, equal keys keep their order
SortDesc(s, key) == SortDescFrom(s, 1, << >>, key)

-----------------------------------------------------------------------------
(* The static catalogs of app/domain/constants.py.  Industry names and     *)
(* levels are opaque strings; everything that is searched for in text is a *)
(* character sequence.                                                     *)

GITA == "gita"            \* the fallback industry, "기타"
JEONRYEOK == "jeonryeok"  \* "전력", power utilities
GEUMYUNG == "geumyung"    \* "금융", finance

\* "기후변화 대응"
ISSUE_GIHU == << "gi", "hu", "byeon", "hwa", " ", "dae", "eung" >>
\* "공급망 관리"
ISSUE_GONGGEUPMANG == << "gong", "geup", "mang", " ", "gwan", "ri" >>
\* "고객 및 제품책임"
ISSUE_GOGAEK == << "go", "gaek", " ", "mit", " ", "je", "pum", "chaek", "im" >>
\* "윤리경영"
ISSUE_YUNRI == << "yun", "ri", "gyeong", "yeong" >>

CAT_E == << "hwan", "gyeong", "(", "E", ")" >>       \* "환경(E)"
CAT_S == << "sa", "hoe", "(", "S", ")" >>            \* "사회(S)"
CAT_G == << "ji", "bae", "gu", "jo", "(", "G", ")" >> \* "지배구조(G)"

NoVariants == [ i \in {} |-> << >> ]

GihuData ==
    [ issue_name |-> ISSUE_GIHU,
      core_keywords |-> << << "gi", "hu", "byeon", "hwa" >>, << "tan", "so" >> >>,
      advanced_keywords |-> << << "tan", "so", "jung", "rip" >> >>,
      industry_variants |-> (JEONRYEOK :> << << "bal", "jeon" >> >>) ]

GonggeupmangData ==
    [ issue_name |-> ISSUE_GONGGEUPMANG,
      core_keywords |-> << << "gong", "geup", "mang" >>, << "gwan", "ri" >> >>,
      advanced_keywords |-> << << "hyeop", "ryeok", "sa" >> >>,
      industry_variants |-> NoVariants ]

GogaekData ==
    [ issue_name |-> ISSUE_GOGAEK,
      core_keywords |-> << << "go", "gaek" >> >>,
      advanced_keywords |-> << << "pum", "jil" >> >>,
      industry_variants |-> NoVariants ]

YunriData ==
    [ issue_name |-> ISSUE_YUNRI,
      core_keywords |-> << << "yun", "ri" >> >>,
      advanced_keywords |-> << << "pyeong", "ga" >> >>,
      industry_variants |-> NoVariants ]

\* category -> issue name -> keywords, both levels in declaration order
FullCatalog ==
    << [ category |-> CAT_E, issues |-> << GihuData >> ],
       [ category |-> CAT_S, issues |-> << GonggeupmangData, GogaekData >> ],
       [ category |-> CAT_G, issues |-> << YunriData >> ] >>

\* a substitute catalog that does not list "고객 및 제품책임"
ReducedCatalog ==
    << [ category |-> CAT_E, issues |-> << GihuData >> ],
       [ category |-> CAT_S, issues |-> << GonggeupmangData >> ],
       [ category |-> CAT_G, issues |-> << YunriData >> ] >>

Catalogs == { FullCatalog, ReducedCatalog }

\* industry -> detection keywords, in declaration order
AUTO_INDUSTRY_DETECTION ==
    << [ industry |-> JEONRYEOK,
         keywords |-> << << "bal", "jeon" >>,                    \* "발전"
                         << "jeon", "ryeok" >>,                  \* "전력"
                         << "han", "guk", "jeon", "ryeok" >> >> ], \* "한국전력"
       [ industry |-> GEUMYUNG,
         keywords |-> << << "eun", "haeng" >>,                   \* "은행"
                         << "geum", "yung", "ji", "ju" >> >> ] >>  \* "금융지주"

INDUSTRY_SPECIFIC_KEYWORDS ==
    (JEONRYEOK :> [ business_keywords |-> << << "song", "jeon" >> >> ]) @@
    (GEUMYUNG :> [ business_keywords |-> << << "dae", "chul" >>, << "go", "gaek" >> >> ])

\* industry -> issue name -> weight * 10
ISSUE_PRIORITY_WEIGHTS ==
    (JEONRYEOK :> ((ISSUE_GIHU :> 9) @@ (ISSUE_GONGGEUPMANG :> 5))) @@
    (GEUMYUNG :> ((ISSUE_YUNRI :> 8) @@ (ISSUE_GOGAEK :> 10)))

MATERIALITY_KEYWORDS ==
    << << "jung", "dae", "seong" >>,                 \* "중대성"
       << "i", "syu" >>,                             \* "이슈"
       << "mae", "teu", "rik", "seu" >>,             \* "매트릭스"
       << "pyeong", "ga" >>,                         \* "평가"
       << "u", "seon", "sun", "wi" >>,               \* "우선순위"
       << "yeong", "hyang", "do" >>,                 \* "영향도"
       << "bal", "saeng", "ga", "neung", "seong" >>, \* "발생가능성"
       << "i", "hae", "gwan", "gye", "ja" >> >>      \* "이해관계자"

\* every keyword a catalog can resolve, in a fixed order (the hash model ranks by it)
KeywordUniverse ==
    << << "gi", "hu", "byeon", "hwa" >>, << "tan", "so" >>, << "tan", "so", "jung", "rip" >>,
       << "bal", "jeon" >>, << "gong", "geup", "mang" >>, << "gwan", "ri" >>,
       << "hyeop", "ryeok", "sa" >>, << "go", "gaek" >>, << "pum", "jil" >>,
       << "yun", "ri" >>, << "pyeong", "ga" >>, << "song", "jeon" >>, << "dae", "chul" >> >>

-----------------------------------------------------------------------------
(* Industry detection *)

CoreIdentityMarks ==
    << << "bal", "jeon" >>, << "hoe", "sa" >>, << "han", "guk" >> >>  \* "발전", "회사", "한국"

\* mutant: the caps wrap around instead of saturating
KeywordScore_Wrapping(text, keyword) ==
    LET count == Count(text, keyword)
    IN  IF count > 0
        THEN IF \E m \in DOMAIN CoreIdentityMarks : Contains(keyword, CoreIdentityMarks[m])
             THEN (count * 5) % 25
             ELSE IF Len(keyword) >= 4
                  THEN (count * 3) % 15
                  ELSE (count * 2) % 10
        ELSE 0

\* the points one keyword adds to its industry's score
KeywordScore(text, keyword) ==
    LET count == Count(text, keyword)
    IN  IF count > 0
        THEN IF \E m \in DOMAIN CoreIdentityMarks : Contains(keyword, CoreIdentityMarks[m])
             THEN Min(count * 5, 25)
             ELSE IF Len(keyword) >= 4
                  THEN Min(count * 3, 15)
                  ELSE Min(count * 2, 10)
        ELSE 0

RECURSIVE SumKeywordScores(_, _, _)
SumKeywordScores(text, keywords, i) ==
    IF i > Len(keywords) THEN 0
    ELSE KeywordScore(text, keywords[i]) + SumKeywordScores(text, keywords, i + 1)

\* industry_scores, as the sequence of scores in declaration order
IndustryScores(text) ==
    [ i \in DOMAIN AUTO_INDUSTRY_DETECTION |->
        SumKeywordScores(text, AUTO_INDUSTRY_DETECTION[i].keywords, 1) ]

\* mutant: the best-scoring industry is returned even when every score is 0
detect_industry_from_text_no_zero_check(text) ==
    LET industry_scores == IndustryScores(text)
        best == CHOOSE i \in DOMAIN industry_scores :
                    /\ \A j \in DOMAIN industry_scores : industry_scores[j] <= industry_scores[i]
                    /\ \A j \in 1..(i - 1) : industry_scores[j] < industry_scores[i]
    IN  IF industry_scores # << >> THEN AUTO_INDUSTRY_DETECTION[best].industry ELSE GITA

\* mutant: among the industries of maximum score the last declared one is returned
detect_industry_from_text_last_of_ties(text) ==
    LET industry_scores == IndustryScores(text)
        best == CHOOSE i \in DOMAIN industry_scores :
                    /\ \A j \in DOMAIN industry_scores : industry_scores[j] <= industry_scores[i]
                    /\ \A j \in (i + 1)..Len(industry_scores) :
                          industry_scores[j] < industry_scores[i]
    IN  IF industry_scores # << >> /\ \E i \in DOMAIN industry_scores : industry_scores[i] > 0
        THEN AUTO_INDUSTRY_DETECTION[best].industry
        ELSE GITA

detect_industry_from_text(text) ==
    LET industry_scores == IndustryScores(text)
        best == CHOOSE i \in DOMAIN industry_scores :
                    /\ \A j \in DOMAIN industry_scores : industry_scores[j] <= industry_scores[i]
                    /\ \A j \in 1..(i - 1) : industry_scores[j] < industry_scores[i]
    IN  IF industry_scores # << >> /\ \E i \in DOMAIN industry_scores : industry_scores[i] > 0
        THEN AUTO_INDUSTRY_DETECTION[best].industry
        ELSE GITA

-----------------------------------------------------------------------------
(* Keyword resolver *)

KwIndex(kw) == CHOOSE i \in DOMAIN KeywordUniverse : KeywordUniverse[i] = kw

\* where the process's string hash (randomised per process by its seed) puts a keyword
HashSlot(kw, seed) ==
    LET n == Len(KeywordUniverse)
        i == KwIndex(kw)
    IN  ((IF seed % 2 = 1 THEN n - i ELSE i - 1) + seed \div 2) % n

RECURSIVE ListOfSet(_, _)
\* list(set(...)): the elements in the iteration order of the hash table
ListOfSet(S, seed) ==
    IF S = {} THEN << >>
    ELSE LET first == CHOOSE x \in S : \A y \in S : HashSlot(x, seed) <= HashSlot(y, seed)
         IN  << first >> \o ListOfSet(S \ { first }, seed)

\* the categories that list issue_name, in declaration order
CategoriesWith(issue_name) ==
    SelectSeq(UNIVERSAL_ESG_ISSUES,
              LAMBDA c : \E j \in DOMAIN c.issues : c.issues[j].issue_name = issue_name)

IssueData(c, issue_name) ==
    c.issues[CHOOSE j \in DOMAIN c.issues : c.issues[j].issue_name = issue_name]

SpecialIssues == { ISSUE_GOGAEK, ISSUE_GONGGEUPMANG }

\* the list `keywords` before duplicates are removed
CollectedKeywords(issue_name, industry) ==
    LET found == CategoriesWith(issue_name)
        base == IF found = << >> THEN << >>
                ELSE LET issue_data == IssueData(found[1], issue_name)
                     IN  issue_data.core_keywords \o issue_data.advanced_keywords \o
                         (IF industry \in DOMAIN issue_data.industry_variants
                          THEN issue_data.industry_variants[industry]
                          ELSE << >>)
        business == IF /\ industry \in DOMAIN INDUSTRY_SPECIFIC_KEYWORDS
                       /\ issue_name \in SpecialIssues
                    THEN INDUSTRY_SPECIFIC_KEYWORDS[industry].business_keywords
                    ELSE << >>
    IN  base \o business

\* mutant: the collected list is returned as it is, without list(set(...))
get_dynamic_keywords_for_issue_collected(issue_name, industry, seed) ==
    CollectedKeywords(issue_name, industry)

get_dynamic_keywords_for_issue(issue_name, industry, seed) ==
    ListOfSet(Range(CollectedKeywords(issue_name, industry)), seed)

\* mutant: `keywords` is bound to the catalog's own core keyword list
KeywordsObject_Aliased == "core_keywords"

\* the list object `keywords` is bound to: a new list, `keywords = []`
KeywordsObject == "keywords"

\* target.extend(source): the object `target` grows, `source` is only read
Extend(heap, target, source) == [ heap EXCEPT ![target] = @ \o source ]

\* The catalog a call of get_dynamic_keywords_for_issue leaves behind.  The lists the
\* call touches are objects of a heap: the local `keywords` and the three keyword lists
\* of the catalog entry; every statement is applied to the object it names.
CatalogAfterResolve(catalog, issue_name, industry) ==
    LET holders == { c \in DOMAIN catalog :
                       \E j \in DOMAIN catalog[c].issues :
                           catalog[c].issues[j].issue_name = issue_name }
    IN  IF holders = { } THEN catalog
        ELSE LET c == CHOOSE x \in holders : \A y \in holders : x <= y
                 j == CHOOSE x \in DOMAIN catalog[c].issues :
                          catalog[c].issues[x].issue_name = issue_name
                 issue_data == catalog[c].issues[j]
                 has_variant == industry \in DOMAIN issue_data.industry_variants
                 heap0 == [ keywords |-> << >>,
                            core_keywords |-> issue_data.core_keywords,
                            advanced_keywords |-> issue_data.advanced_keywords,
                            industry_variants |->
                                IF has_variant THEN issue_data.industry_variants[industry]
                                ELSE << >> ]
                 heap1 == Extend(heap0, KeywordsObject, heap0.core_keywords)
                 heap2 == Extend(heap1, KeywordsObject, heap1.advanced_keywords)
                 heap3 == IF has_variant
                          THEN Extend(heap2, KeywordsObject, heap2.industry_variants)
                          ELSE heap2
                 heap4 == IF /\ industry \in DOMAIN INDUSTRY_SPECIFIC_KEYWORDS
                             /\ issue_name \in SpecialIssues
                          THEN Extend(heap3, KeywordsObject,
                                      INDUSTRY_SPECIFIC_KEYWORDS[industry].business_keywords)
                          ELSE heap3
             IN  [ catalog EXCEPT
                     ![c].issues[j].core_keywords = heap4.core_keywords,
                     ![c].issues[j].advanced_keywords = heap4.advanced_keywords,
                     ![c].issues[j].industry_variants =
                         IF has_variant
                         THEN [ @ EXCEPT ![industry] = heap4.industry_variants ]
                         ELSE @ ]

-----------------------------------------------------------------------------
(* Confidence scorer *)

materiality_indicators ==
    << << "jung", "dae", "seong" >>,                                    \* "중대성"
       << "m", "a", "t", "e", "r", "i", "a", "l", "i", "t", "y" >>,
       << "haek", "sim", "i", "syu" >>,                                 \* "핵심이슈"
       << "u", "seon", "sun", "wi" >> >>                                \* "우선순위"

table_indicators ==
    << << "box_v" >>, << "box_h" >>,               \* the box-drawing characters U+2502, U+2500
       << "pyo" >>,                                \* "표"
       << "mae", "teu", "rik", "seu" >>,           \* "매트릭스"
       << "sun", "wi" >>,                          \* "순위"
       << "nop", "eum" >>,                         \* "높음"
       << "bo", "tong" >>,                         \* "보통"
       << "nat", "eum" >> >>                       \* "낮음"

high_quality_keywords ==
    << << "pyeong", "ga" >>, << "gwan", "ri" >>, << "jeon", "ryak" >>,
       << "gae", "seon" >>, << "mok", "pyo" >>, << "seong", "gwa" >> >>

\* ISSUE_PRIORITY_WEIGHTS[industry].get(issue_name, 0)
IssueWeight(industry, issue_name) ==
    IF issue_name \in DOMAIN ISSUE_PRIORITY_WEIGHTS[industry]
    THEN ISSUE_PRIORITY_WEIGHTS[industry][issue_name]
    ELSE 0

\* mutant: an issue without weight entry gets the ranker's default weight 0.1
RawConfidence_DefaultWeight(text, issue_name, matched_keywords, all_keywords, industry) ==
    (IF all_keywords # << >>
     THEN (Len(matched_keywords) * (Scale \div 2)) \div Len(all_keywords)
     ELSE 0)
    + (IF Contains(text, issue_name) THEN 30 * Hundredth ELSE 0)
    + (IF ContainsAny(text, materiality_indicators) THEN 20 * Hundredth ELSE 0)
    + (IF ContainsAny(text, table_indicators) THEN 15 * Hundredth ELSE 0)
    + (IF industry \in DOMAIN ISSUE_PRIORITY_WEIGHTS
       THEN (IF issue_name \in DOMAIN ISSUE_PRIORITY_WEIGHTS[industry]
             THEN ISSUE_PRIORITY_WEIGHTS[industry][issue_name]
             ELSE 1) * Hundredth
       ELSE 0)
    + (IF \E h \in DOMAIN high_quality_keywords :
             high_quality_keywords[h] \in Range(matched_keywords)
       THEN 10 * Hundredth
       ELSE 0)

\* the sum of the six signals, before the clamp
RawConfidence(text, issue_name, matched_keywords, all_keywords, industry) ==
    (IF all_keywords # << >>
     THEN (Len(matched_keywords) * (Scale \div 2)) \div Len(all_keywords)
     ELSE 0)
    + (IF Contains(text, issue_name) THEN 30 * Hundredth ELSE 0)
    + (IF ContainsAny(text, materiality_indicators) THEN 20 * Hundredth ELSE 0)
    + (IF ContainsAny(text, table_indicators) THEN 15 * Hundredth ELSE 0)
    + (IF industry \in DOMAIN ISSUE_PRIORITY_WEIGHTS
       THEN IssueWeight(industry, issue_name) * Hundredth
       ELSE 0)
    + (IF \E h \in DOMAIN high_quality_keywords :
             high_quality_keywords[h] \in Range(matched_keywords)
       THEN 10 * Hundredth
       ELSE 0)

\* mutant: the final min(confidence, 1.0) is missing
calculate_enhanced_confidence_unclamped(text, issue_name, matched_keywords, all_keywords, industry) ==
    RawConfidence(text, issue_name, matched_keywords, all_keywords, industry)

calculate_enhanced_confidence(text, issue_name, matched_keywords, all_keywords, industry) ==
    Min(RawConfidence(text, issue_name, matched_keywords, all_keywords, industry), Scale)

-----------------------------------------------------------------------------
(* Deduplicator *)

\* mutant: the key is built without the "_" between name and page
DedupKey_NoSeparator(issue) == issue.issue_name \o PyStr(issue.page_number)

\* f"{issue['issue_name']}_{issue['page_number']}"
DedupKey(issue) == issue.issue_name \o << "_" >> \o PyStr(issue.page_number)

\* mutant: >= for >, so that the last of several equal candidates is kept
SeenAfter_KeepLast(seen, issue) ==
    LET key == issue.issue_name \o << "_" >> \o PyStr(issue.page_number)
        at == { i \in DOMAIN seen : seen[i].key = key }
    IN  IF at = {}
        THEN Append(seen, [ key |-> key, issue |-> issue ])
        ELSE LET i == CHOOSE j \in at : TRUE
             IN  IF issue.confidence >= seen[i].issue.confidence
                 THEN [ seen EXCEPT ![i].issue = issue ]
                 ELSE seen

\* seen_issues[key] = issue, when the loop body's condition holds; seen_issues is
\* a dict, held as the sequence of its (key, value) entries in insertion order
SeenAfter(seen, issue) ==
    LET key == DedupKey(issue)
        at == { i \in DOMAIN seen : seen[i].key = key }
    IN  IF at = {}
        THEN Append(seen, [ key |-> key, issue |-> issue ])
        ELSE LET i == CHOOSE j \in at : TRUE
             IN  IF issue.confidence > seen[i].issue.confidence
                 THEN [ seen EXCEPT ![i].issue = issue ]
                 ELSE seen

RECURSIVE SeenIssues(_, _, _)
SeenIssues(issues, i, seen) ==
    IF i > Len(issues) THEN seen ELSE SeenIssues(issues, i + 1, SeenAfter(seen, issues[i]))

\* mutant: the survivors are returned last-inserted first
remove_duplicate_issues_reversed(issues) ==
    LET seen_issues == SeenIssues(issues, 1, << >>)
    IN  [ i \in DOMAIN seen_issues |-> seen_issues[Len(seen_issues) + 1 - i].issue ]

remove_duplicate_issues(issues) ==
    LET seen_issues == SeenIssues(issues, 1, << >>)
    IN  [ i \in DOMAIN seen_issues |-> seen_issues[i].issue ]

-----------------------------------------------------------------------------
(* Priority ranker *)

\* the loop body of apply_industry_priority; priority_score is held * Scale * 10
WithPriority(issue, weights) ==
    IF issue.issue_name \in DOMAIN weights
    THEN [ priority_score |-> issue.confidence * (10 + weights[issue.issue_name]),
           industry_weight |-> weights[issue.issue_name] ] @@ issue
    ELSE [ priority_score |-> issue.confidence * 11,
           industry_weight |-> 1 ] @@ issue

apply_industry_priority(issues, industry) ==
    IF industry \notin DOMAIN ISSUE_PRIORITY_WEIGHTS
    THEN issues
    ELSE LET weights == ISSUE_PRIORITY_WEIGHTS[industry]
         IN  SortDesc([ i \in DOMAIN issues |-> WithPriority(issues[i], weights) ],
                      "priority_score")

-----------------------------------------------------------------------------
(* Confidence aggregator *)

NAJEUM == "najeum"     \* "낮음", low
JUNGGAN == "junggan"   \* "중간", medium
NOPEUM == "nopeum"     \* "높음", high
NO_ISSUES == "isyureul chajeul su eopseum"   \* "이슈를 찾을 수 없음", no issues found

RECURSIVE SumConfidence(_, _)
SumConfidence(issues, i) ==
    IF i > Len(issues) THEN 0 ELSE issues[i].confidence + SumConfidence(issues, i + 1)

\* round(p / q, 0) for q > 0, p >= 0: to the nearest integer, a tie to the even one
RoundDiv(p, q) ==
    LET r == (2 * p + q) \div (2 * q)
    IN  IF (2 * p + q) % (2 * q) = 0 /\ r % 2 = 1 THEN r - 1 ELSE r

\* mutant: the sum of base and bonuses is not clamped by min(1.0, ...)
FinalTimesLen_Unclamped(issues, industry) ==
    LET n == Len(issues)
        unique_categories == Cardinality({ issues[i].category : i \in DOMAIN issues })
        high_confidence_issues ==
            Cardinality({ i \in DOMAIN issues : issues[i].confidence * 10 > 7 * Scale })
    IN  SumConfidence(issues, 1)
        + n * (IF industry # GITA THEN 10 ELSE 0) * Hundredth
        + n * Min(unique_categories * 5, 15) * Hundredth
        + high_confidence_issues * 10 * Hundredth

\* final_score * len(issues), in confidence units
FinalTimesLen(issues, industry) ==
    LET n == Len(issues)
        industry_bonus == IF industry # GITA THEN 10 ELSE 0
        unique_categories == Cardinality({ issues[i].category : i \in DOMAIN issues })
        diversity_bonus == Min(unique_categories * 5, 15)
        high_confidence_issues ==
            Cardinality({ i \in DOMAIN issues : issues[i].confidence * 10 > 7 * Scale })
    IN  Min(n * Scale,
            SumConfidence(issues, 1)
            + n * industry_bonus * Hundredth
            + n * diversity_bonus * Hundredth
            + high_confidence_issues * 10 * Hundredth)

\* mutant: a confidence of exactly 0.7 counts as high
calculate_overall_confidence_enhanced_AtLeast(issues, issue_scores, industry) ==
    IF issues = << >>
    THEN [ score |-> 0, level |-> NAJEUM, reason |-> NO_ISSUES, industry |-> industry ]
    ELSE LET n == Len(issues)
             unique_categories == Cardinality({ issues[i].category : i \in DOMAIN issues })
             high_confidence_issues ==
                 Cardinality({ i \in DOMAIN issues : issues[i].confidence * 10 >= 7 * Scale })
             final_n == Min(n * Scale,
                            SumConfidence(issues, 1)
                            + n * (IF industry # GITA THEN 10 ELSE 0) * Hundredth
                            + n * Min(unique_categories * 5, 15) * Hundredth
                            + high_confidence_issues * 10 * Hundredth)
         IN  [ score |-> RoundDiv(final_n, n * Hundredth),
               level |-> IF final_n >= 80 * Hundredth * n THEN NOPEUM
                         ELSE IF final_n >= 60 * Hundredth * n THEN JUNGGAN
                         ELSE NAJEUM,
               issues_found |-> n,
               industry |-> industry,
               high_confidence_count |-> high_confidence_issues,
               category_diversity |-> unique_categories,
               analysis_details |->
                   [ base_confidence |-> RoundDiv(SumConfidence(issues, 1), n * Hundredth),
                     industry_bonus |-> IF industry # GITA THEN 10 ELSE 0,
                     diversity_bonus |-> Min(unique_categories * 5, 15),
                     quality_bonus |-> RoundDiv(high_confidence_issues * 10, n) ] ]

calculate_overall_confidence_enhanced(issues, issue_scores, industry) ==
    IF issues = << >>
    THEN [ score |-> 0, level |-> NAJEUM, reason |-> NO_ISSUES, industry |-> industry ]
    ELSE LET n == Len(issues)
             unique_categories == Cardinality({ issues[i].category : i \in DOMAIN issues })
             high_confidence_issues ==
                 Cardinality({ i \in DOMAIN issues : issues[i].confidence * 10 > 7 * Scale })
             final_n == FinalTimesLen(issues, industry)
         IN  [ score |-> RoundDiv(final_n, n * Hundredth),
               level |-> IF final_n >= 80 * Hundredth * n THEN NOPEUM
                         ELSE IF final_n >= 60 * Hundredth * n THEN JUNGGAN
                         ELSE NAJEUM,
               issues_found |-> n,
               industry |-> industry,
               high_confidence_count |-> high_confidence_issues,
               category_diversity |-> unique_categories,
               analysis_details |->
                   [ base_confidence |-> RoundDiv(SumConfidence(issues, 1), n * Hundredth),
                     industry_bonus |-> IF industry # GITA THEN 10 ELSE 0,
                     diversity_bonus |-> Min(unique_categories * 5, 15),
                     quality_bonus |-> RoundDiv(high_confidence_issues * 10, n) ] ]

-----------------------------------------------------------------------------
(* Issue matcher and the pipeline *)

basic_esg_keywords ==
    << << "hwan", "gyeong" >>,                                    \* "환경"
       << "sa", "hoe" >>,                                         \* "사회"
       << "ji", "bae", "gu", "jo" >>,                             \* "지배구조"
       << "E", "S", "G" >>,
       << "ji", "sok", "ga", "neung" >>,                          \* "지속가능"
       << "s", "u", "s", "t", "a", "i", "n", "a", "b", "i", "l", "i", "t", "y" >> >>

\* mutant: the pre-filter without its length clause
EsgRelated_NoLength(element_text) ==
    \/ ContainsAny(element_text, MATERIALITY_KEYWORDS)
    \/ ContainsAny(element_text, basic_esg_keywords)

\* the pre-filter of the element loop
EsgRelated(element_text) ==
    \/ ContainsAny(element_text, MATERIALITY_KEYWORDS)
    \/ ContainsAny(element_text, basic_esg_keywords)
    \/ Len(Strip(element_text)) >= 20

\* the (category, issue_name) pairs in the order the two nested loops visit them
CatalogIssues ==
    Flatten([ c \in DOMAIN UNIVERSAL_ESG_ISSUES |->
                [ j \in DOMAIN UNIVERSAL_ESG_ISSUES[c].issues |->
                    [ category |-> UNIVERSAL_ESG_ISSUES[c].category,
                      issue_name |-> UNIVERSAL_ESG_ISSUES[c].issues[j].issue_name ] ] ])

\* mutant: the candidate carries the whole segment text
MatchIssue_WholeText(element, entry, detected_industry, seed) ==
    LET dynamic_keywords ==
            get_dynamic_keywords_for_issue(entry.issue_name, detected_industry, seed)
        matched_keywords == SelectSeq(dynamic_keywords, LAMBDA kw : Contains(element.text, kw))
    IN  IF matched_keywords # << >>
        THEN << [ category |-> SplitHead(entry.category, "("),
                  issue_name |-> entry.issue_name,
                  content |-> element.text,
                  matched_keywords |-> matched_keywords,
                  page_number |-> element.page_number,
                  element_type |-> element.element_type,
                  confidence |-> calculate_enhanced_confidence(
                                     element.text, entry.issue_name, matched_keywords,
                                     dynamic_keywords, detected_industry),
                  industry |-> detected_industry ] >>
        ELSE << >>

\* the body of the innermost loop: the issue appended for one element and one catalog
\* issue (issue_id is given when the list is assembled), or nothing
MatchIssue(element, entry, detected_industry, seed) ==
    LET dynamic_keywords ==
            get_dynamic_keywords_for_issue(entry.issue_name, detected_industry, seed)
        matched_keywords == SelectSeq(dynamic_keywords, LAMBDA kw : Contains(element.text, kw))
    IN  IF matched_keywords # << >>
        THEN << [ category |-> SplitHead(entry.category, "("),
                  issue_name |-> entry.issue_name,
                  content |-> Take(element.text, 500),
                  matched_keywords |-> matched_keywords,
                  page_number |-> element.page_number,
                  element_type |-> element.element_type,
                  confidence |-> calculate_enhanced_confidence(
                                     element.text, entry.issue_name, matched_keywords,
                                     dynamic_keywords, detected_industry),
                  industry |-> detected_industry ] >>
        ELSE << >>

ElementIssues(element, detected_industry, seed) ==
    IF ~EsgRelated(element.text) THEN << >>
    ELSE Flatten([ k \in DOMAIN CatalogIssues |->
                     MatchIssue(element, CatalogIssues[k], detected_industry, seed) ])

\* `issues` when the element loop ends
RawIssues(elems, detected_industry, seed) ==
    LET found == Flatten([ e \in DOMAIN elems |->
                             ElementIssues(elems[e], detected_industry, seed) ])
    IN  [ i \in DOMAIN found |-> found[i] @@ [ issue_id |-> i ] ]

\* issue_confidence_scores: the best confidence seen for each issue name
IssueConfidenceScores(issues) ==
    [ name \in { issues[i].issue_name : i \in DOMAIN issues } |->
        CHOOSE c \in { issues[i].confidence : i \in DOMAIN issues } :
            /\ \E i \in DOMAIN issues : issues[i].issue_name = name /\ issues[i].confidence = c
            /\ \A i \in DOMAIN issues : issues[i].issue_name = name => issues[i].confidence <= c ]

\* the number of ranked issues a result returns
TopCap == 20

\* the text the industry is detected from
FullText(elems) == Join(<< " " >>, [ e \in DOMAIN elems |-> elems[e].text ])

\* mutant: the sorted list is cut to 20 before the priority scores are applied
PrioritizedIssues_CutFirst(issues, detected_industry) ==
    LET unique_issues == SortDesc(remove_duplicate_issues(issues), "confidence")
    IN  apply_industry_priority(Take(unique_issues, TopCap), detected_industry)

\* steps 4 and 5: unique_issues, sorted by confidence, then prioritized_issues
PrioritizedIssues(issues, detected_industry) ==
    LET unique_issues == SortDesc(remove_duplicate_issues(issues), "confidence")
    IN  apply_industry_priority(unique_issues, detected_industry)

\* mutant: the aggregate is computed over the 20 issues that are returned
BuildResult_OverReturned(prioritized_issues, issue_confidence_scores, detected_industry) ==
    [ detected_industry |-> detected_industry,
      total_issues_found |-> Len(prioritized_issues),
      issues |-> Take(prioritized_issues, TopCap),
      overall_confidence |->
          calculate_overall_confidence_enhanced(
              Take(prioritized_issues, TopCap), issue_confidence_scores, detected_industry),
      industry_priority_applied |-> TRUE ]

\* step 6: the result dict
BuildResult(prioritized_issues, issue_confidence_scores, detected_industry) ==
    [ detected_industry |-> detected_industry,
      total_issues_found |-> Len(prioritized_issues),
      issues |-> Take(prioritized_issues, TopCap),
      overall_confidence |->
          calculate_overall_confidence_enhanced(
              prioritized_issues, issue_confidence_scores, detected_industry),
      industry_priority_applied |-> TRUE ]

\* steps 3 to 6, for the industry step 2 has detected
ExtractFor(elems, detected_industry, seed) ==
    LET issues == RawIssues(elems, detected_industry, seed)
    IN  BuildResult(PrioritizedIssues(issues, detected_industry),
                    IssueConfidenceScores(issues), detected_industry)

extract_materiality_issues_enhanced(elems, seed) ==
    ExtractFor(elems, detect_industry_from_text(FullText(elems)), seed)

\* the catalog after the resolver calls names[i..] of one element
RECURSIVE CatalogAfterResolves(_, _, _, _)
CatalogAfterResolves(catalog, names, industry, i) ==
    IF i > Len(names) THEN catalog
    ELSE CatalogAfterResolves(CatalogAfterResolve(catalog, names[i], industry),
                              names, industry, i + 1)

\* the catalog after the loop body has run for one element
CatalogAfterElement(catalog, element, detected_industry) ==
    IF ~EsgRelated(element.text) THEN catalog
    ELSE CatalogAfterResolves(
             catalog, [ k \in DOMAIN CatalogIssues |-> CatalogIssues[k].issue_name ],
             detected_industry, 1)

RECURSIVE CatalogAfterElements(_, _, _, _)
CatalogAfterElements(catalog, elems, detected_industry, e) ==
    IF e > Len(elems) THEN catalog
    ELSE CatalogAfterElements(CatalogAfterElement(catalog, elems[e], detected_industry),
                              elems, detected_industry, e + 1)

-----------------------------------------------------------------------------
(* Merge of externally supplied candidates: GeminiClient (the client the   *)
(* document service is given) and GeminiService (the client of main.py)    *)

\* str.lower on the characters of the model (the Latin capitals the names use)
LowerChar(c) ==
    CASE c = "E" -> "e"
      [] c = "S" -> "s"
      [] c = "G" -> "g"
      [] OTHER -> c

Lower(t) == [ i \in DOMAIN t |-> LowerChar(t[i]) ]

\* the words of t[i..], `word` being the run of non-blank characters read so far
RECURSIVE SplitFrom(_, _, _)
SplitFrom(t, i, word) ==
    IF i > Len(t)
    THEN IF word = << >> THEN { } ELSE { word }
    ELSE IF t[i] \in Whitespace
         THEN (IF word = << >> THEN { } ELSE { word }) \cup SplitFrom(t, i + 1, << >>)
         ELSE SplitFrom(t, i + 1, Append(word, t[i]))

\* set(t.split())
SplitWords(t) == SplitFrom(t, 1, << >>)

\* dict.get(field, default)
Get(issue, field, default) == IF field \in DOMAIN issue THEN issue[field] ELSE default

\* issue[field] = value
SetField(issue, field, value) == (field :> value) @@ issue

\* GeminiClient._is_similar_issue: similarity > 0.3, written 10 * common > 3 * min
is_similar_issue(issue1, issue2) ==
    LET name1 == Lower(Get(issue1, "issue_name", << >>))
        name2 == Lower(Get(issue2, "issue_name", << >>))
        words1 == SplitWords(name1)
        words2 == SplitWords(name2)
    IN  IF Len(name1) = 0 \/ Len(name2) = 0 THEN FALSE
        ELSE IF words1 = { } \/ words2 = { } THEN FALSE
        ELSE 10 * Cardinality(words1 \cap words2)
                 > 3 * Min(Cardinality(words1), Cardinality(words2))

\* the value of gemini_result.get("data") when there is none
NoData == << >>

\* `not gemini_result.get("success") or not gemini_result.get("data")`
Unusable(gemini_result) ==
    \/ ~Get(gemini_result, "success", FALSE)
    \/ Get(gemini_result, "data", NoData) = NoData

\* mutant: a candidate is compared with the internal candidates only
is_duplicate_internal_only(gemini_issue, merged_issues) ==
    \E e \in DOMAIN merged_issues :
        /\ "source" \notin DOMAIN merged_issues[e]
        /\ is_similar_issue(gemini_issue, merged_issues[e])

\* is_duplicate of the loop body
is_duplicate(gemini_issue, merged_issues) ==
    \E e \in DOMAIN merged_issues : is_similar_issue(gemini_issue, merged_issues[e])

\* merged_issues after the loop has taken gemini_issues[i..]
RECURSIVE MergeFrom(_, _, _)
MergeFrom(merged_issues, gemini_issues, i) ==
    IF i > Len(gemini_issues) THEN merged_issues
    ELSE LET gemini_issue == gemini_issues[i]
         IN  IF ~is_duplicate(gemini_issue, merged_issues)
             THEN MergeFrom(Append(merged_issues, SetField(gemini_issue, "source", "gemini")),
                            gemini_issues, i + 1)
             ELSE MergeFrom(merged_issues, gemini_issues, i + 1)

\* GeminiClient.merge_extraction_results
merge_extraction_results(unstructured_issues, gemini_result) ==
    IF Unusable(gemini_result) THEN unstructured_issues
    ELSE MergeFrom(unstructured_issues,
                   Get(gemini_result.data, "materiality_issues", << >>), 1)

\* GeminiService._is_similar_issue: the name, or the content when the name is empty;
\* Jaccard similarity > 0.3, written 10 * intersection > 3 * union
GeminiService_is_similar_issue(issue1, issue2) ==
    LET n1 == Get(issue1, "issue_name", << >>)
        n2 == Get(issue2, "issue_name", << >>)
        name1 == IF n1 # << >> THEN n1 ELSE Get(issue1, "content", << >>)
        name2 == IF n2 # << >> THEN n2 ELSE Get(issue2, "content", << >>)
        words1 == SplitWords(Lower(name1))
        words2 == SplitWords(Lower(name2))
    IN  IF words1 = { } \/ words2 = { } THEN FALSE
        ELSE 10 * Cardinality(words1 \cap words2) > 3 * Cardinality(words1 \cup words2)

RECURSIVE GeminiService_MergeFrom(_, _, _)
GeminiService_MergeFrom(merged_issues, gemini_issues, i) ==
    IF i > Len(gemini_issues) THEN merged_issues
    ELSE LET gemini_issue == gemini_issues[i]
             is_dup == \E e \in DOMAIN merged_issues :
                           GeminiService_is_similar_issue(merged_issues[e], gemini_issue)
         IN  IF ~is_dup
             THEN GeminiService_MergeFrom(
                      Append(merged_issues,
                             SetField(SetField(gemini_issue, "extraction_method", "gemini"),
                                      "issue_id", Len(merged_issues) + 1)),
                      gemini_issues, i + 1)
             ELSE GeminiService_MergeFrom(merged_issues, gemini_issues, i + 1)

\* list.sort(key=lambda x: x.get("confidence", 0), reverse=True)
SortByConfidence(issues) ==
    LET keyed == [ i \in DOMAIN issues |->
                     [ sort_key |-> Get(issues[i], "confidence", 0), issue |-> issues[i] ] ]
        sorted == SortDesc(keyed, "sort_key")
    IN  [ i \in DOMAIN sorted |-> sorted[i].issue ]

\* GeminiService.merge_extraction_results
GeminiService_merge_extraction_results(unstructured_issues, gemini_result) ==
    LET tagged == [ i \in DOMAIN unstructured_issues |->
                      SetField(unstructured_issues[i], "extraction_method", "unstructured") ]
        merged_issues ==
            IF Get(gemini_result, "success", FALSE)
               /\ Get(gemini_result, "data", NoData) # NoData
            THEN GeminiService_MergeFrom(
                     tagged, Get(gemini_result.data, "materiality_issues", << >>), 1)
            ELSE tagged
    IN  Take(SortByConfidence(merged_issues), 25)

-----------------------------------------------------------------------------
(* Inputs *)

SP == " "

\* "기후변화 대응 중대성 평가"
TextGihu ==
    << "gi", "hu", "byeon", "hwa", SP, "dae", "eung", SP, "jung", "dae", "seong", SP,
       "pyeong", "ga" >>
\* "탄소중립 발전 전략"
TextTanso == << "tan", "so", "jung", "rip", SP, "bal", "jeon", SP, "jeon", "ryak" >>
\* "공급망 관리 협력사 평가 순위 환경"
TextGonggeup ==
    << "gong", "geup", "mang", SP, "gwan", "ri", SP, "hyeop", "ryeok", "sa", SP,
       "pyeong", "ga", SP, "sun", "wi", SP, "hwan", "gyeong" >>
\* "한국전력 발전 송전 공급망 관리 탄소중립 기후변화"
TextHanjeon ==
    << "han", "guk", "jeon", "ryeok", SP, "bal", "jeon", SP, "song", "jeon", SP,
       "gong", "geup", "mang", SP, "gwan", "ri", SP, "tan", "so", "jung", "rip", SP,
       "gi", "hu", "byeon", "hwa" >>
\* "은행 고객 대출 윤리 환경"
TextEunhaeng ==
    << "eun", "haeng", SP, "go", "gaek", SP, "dae", "chul", SP, "yun", "ri", SP,
       "hwan", "gyeong" >>
\* "윤리경영 평가 중대성 우선순위"
TextYunri ==
    << "yun", "ri", "gyeong", "yeong", SP, "pyeong", "ga", SP, "jung", "dae", "seong", SP,
       "u", "seon", "sun", "wi" >>

SampleTexts == { TextGihu, TextTanso, TextGonggeup, TextHanjeon, TextEunhaeng, TextYunri }

ElementTypeOf(text) ==
    IF text \in { TextGonggeup, TextYunri } THEN "Table"
    ELSE IF text = TextGihu THEN "Title"
    ELSE "NarrativeText"

Pages == { None, 1 }

\* the segments the ingestion layer can hand over
Elements ==
    { [ text |-> t, page_number |-> p, element_type |-> ElementTypeOf(t) ] :
        t \in SampleTexts, p \in Pages }

\* the sequences over S of length at most n
SeqsUpTo(S, n) == UNION { [ 1..k -> S ] : k \in 0..n }

Seeds == 0..(NumSeeds - 1)

Industries == { GITA, JEONRYEOK, GEUMYUNG }

-----------------------------------------------------------------------------
(* The pipeline: a process loads its catalogs and is given a segment list; *)
(* every run is extract_materiality_issues_enhanced in a process whose     *)
(* string hash was seeded at start-up.                                     *)

RankIdle == rk_pc = "idle" /\ rk_args = << >> /\ rk_result = << >>
DetectIdle == dt_text = << >> /\ dt_added = << >> /\ dt_prev = << >> /\ dt_last = << >>
MergeIdle == mg_pc = "idle" /\ mg_args = << >> /\ mg_result = << >>
SharedIdle == sh_pc = << >> /\ sh_elems = << >> /\ sh_local = << >> /\ sh_seed = 0
UploadIdle ==
    /\ up_pc = "idle" /\ up_pdf = << >> /\ up_elements = None
    /\ up_raised = << >> /\ up_response = 0 /\ up_temp = FALSE
TopIdle == tp_pc = "idle" /\ tp_args = << >> /\ tp_result = << >>
ScanIdle == sc_pc = "idle" /\ sc_args = << >> /\ sc_result = << >>
QuotaIdle ==
    /\ qm_limits = << >> /\ qm_usage = << >> /\ qm_lock = 0
    /\ qm_pc = << >> /\ qm_req = << >>
TempFileIdle == pf_pc = "idle" /\ pf_in = << >> /\ pf_temp = FALSE /\ pf_out = << >>
VisionIdle ==
    /\ vs_pc = "idle" /\ vs_pages = << >> /\ vs_i = 0 /\ vs_all = << >>
    /\ vs_seen = << >> /\ vs_fallback = FALSE /\ vs_result = << >>
RestIdle == ScanIdle /\ QuotaIdle /\ TempFileIdle /\ VisionIdle

FunctionsIdle ==
    /\ dd_pc = "idle" /\ dd_issues = << >> /\ dd_unique = << >> /\ dd_twice = << >>
    /\ cf_pc = "idle" /\ cf_args = << >> /\ cf_confidence = 0
    /\ ag_pc = "idle" /\ ag_args = << >> /\ ag_result = << >>
    /\ kw_pc = "idle" /\ kw_args = << >> /\ kw_result = << >>

HarnessIdle ==
    /\ FunctionsIdle
    /\ RankIdle /\ DetectIdle /\ MergeIdle /\ SharedIdle /\ UploadIdle /\ TopIdle /\ RestIdle

Init ==
    /\ UNIVERSAL_ESG_ISSUES = FullCatalog
    /\ elements \in SeqsUpTo(Elements, MaxSegments)
    /\ runs = << >>
    /\ HarnessIdle

Extract ==
    /\ Len(runs) < MaxRuns
    /\ LET detected_industry == detect_industry_from_text(FullText(elements))
       IN  /\ \E seed \in Seeds :
                 runs' = Append(runs, [ seed |-> seed,
                                        result |-> ExtractFor(elements, detected_industry,
                                                              seed) ])
           /\ UNIVERSAL_ESG_ISSUES' =
                 CatalogAfterElements(UNIVERSAL_ESG_ISSUES, elements, detected_industry, 1)
    /\ UNCHANGED << elements,
                    dd_pc, dd_issues, dd_unique, dd_twice, cf_pc, cf_args, cf_confidence,
                    ag_pc, ag_args, ag_result, kw_pc, kw_args, kw_result >>
    /\ UNCHANGED << rk_vars, dt_vars, mg_vars, sh_vars, up_vars, tp_vars, rest_vars >>

Next == Extract

Spec == Init /\ [][Next]_vars

-----------------------------------------------------------------------------
(* remove_duplicate_issues called on a candidate list, then on its own output *)

DedupNames == { << "a" >>, << "a", "1" >>, << "a", "_", "1" >> }

DedupPages == { None, 2, 12 }

DedupConfidences == { 40 * Hundredth, 70 * Hundredth }

\* candidate lists; issue_id is the position, as the matcher numbers them
DedupInputs ==
    { [ i \in DOMAIN l |-> [ issue_id |-> i, issue_name |-> l[i][1],
                              page_number |-> l[i][2], confidence |-> l[i][3] ] ] :
        l \in SeqsUpTo(DedupNames \X DedupPages \X DedupConfidences, MaxDedupLen) }

PipelineIdle ==
    /\ UNIVERSAL_ESG_ISSUES = FullCatalog
    /\ elements = << >>
    /\ runs = << >>

InitDedup ==
    /\ PipelineIdle
    /\ dd_pc = "start" /\ dd_issues \in DedupInputs /\ dd_unique = << >> /\ dd_twice = << >>
    /\ cf_pc = "idle" /\ cf_args = << >> /\ cf_confidence = 0
    /\ ag_pc = "idle" /\ ag_args = << >> /\ ag_result = << >>
    /\ kw_pc = "idle" /\ kw_args = << >> /\ kw_result = << >>
    /\ RankIdle /\ DetectIdle /\ MergeIdle /\ SharedIdle /\ UploadIdle /\ TopIdle /\ RestIdle

Dedup ==
    /\ dd_pc = "start"
    /\ dd_unique' = remove_duplicate_issues(dd_issues)
    /\ dd_pc' = "deduped"
    /\ UNCHANGED << UNIVERSAL_ESG_ISSUES, elements, runs, dd_issues, dd_twice,
                    cf_pc, cf_args, cf_confidence, ag_pc, ag_args, ag_result,
                    kw_pc, kw_args, kw_result >>
    /\ UNCHANGED << rk_vars, dt_vars, mg_vars, sh_vars, up_vars, tp_vars, rest_vars >>

DedupAgain ==
    /\ dd_pc = "deduped"
    /\ dd_twice' = remove_duplicate_issues(dd_unique)
    /\ dd_pc' = "again"
    /\ UNCHANGED << UNIVERSAL_ESG_ISSUES, elements, runs, dd_issues, dd_unique,
                    cf_pc, cf_args, cf_confidence, ag_pc, ag_args, ag_result,
                    kw_pc, kw_args, kw_result >>
    /\ UNCHANGED << rk_vars, dt_vars, mg_vars, sh_vars, up_vars, tp_vars, rest_vars >>

NextDedup == Dedup \/ DedupAgain

SpecDedup == InitDedup /\ [][NextDedup]_vars

-----------------------------------------------------------------------------
(* calculate_enhanced_confidence called directly *)

UnknownIssue == << "an", "jeon" >>        \* "안전", in no catalog
KeywordAsIssue == << "tan", "so" >>       \* "탄소", a keyword but no issue name

IssueNames == { ISSUE_GIHU, ISSUE_GONGGEUPMANG, ISSUE_GOGAEK, ISSUE_YUNRI }

\* the keyword lists the resolver can hand to the scorer, and the empty list
ResolvedLists ==
    { << >> } \cup
    { get_dynamic_keywords_for_issue(n, ind, 0) : n \in IssueNames, ind \in Industries }

\* any selection of the resolved keywords, and selections of one keyword more
MatchedLists(all_keywords) ==
    { ListOfSet(S, 0) :
        S \in SUBSET (Range(all_keywords) \cup { << "pyeong", "ga" >> }) }

ConfTexts == { << >>, TextGihu, TextTanso, TextGonggeup, TextYunri }

InitConf ==
    /\ PipelineIdle
    /\ dd_pc = "idle" /\ dd_issues = << >> /\ dd_unique = << >> /\ dd_twice = << >>
    /\ cf_pc = "start"
    /\ \E text \in ConfTexts, issue_name \in IssueNames \cup { UnknownIssue },
          all_keywords \in ResolvedLists, industry \in Industries :
          \E matched_keywords \in MatchedLists(all_keywords) :
              cf_args = [ text |-> text, issue_name |-> issue_name,
                          matched_keywords |-> matched_keywords,
                          all_keywords |-> all_keywords, industry |-> industry ]
    /\ cf_confidence = 0
    /\ ag_pc = "idle" /\ ag_args = << >> /\ ag_result = << >>
    /\ kw_pc = "idle" /\ kw_args = << >> /\ kw_result = << >>
    /\ RankIdle /\ DetectIdle /\ MergeIdle /\ SharedIdle /\ UploadIdle /\ TopIdle /\ RestIdle

Score ==
    /\ cf_pc = "start"
    /\ cf_confidence' = calculate_enhanced_confidence(
                            cf_args.text, cf_args.issue_name, cf_args.matched_keywords,
                            cf_args.all_keywords, cf_args.industry)
    /\ cf_pc' = "done"
    /\ UNCHANGED << UNIVERSAL_ESG_ISSUES, elements, runs, dd_pc, dd_issues, dd_unique,
                    dd_twice, cf_args, ag_pc, ag_args, ag_result, kw_pc, kw_args, kw_result >>
    /\ UNCHANGED << rk_vars, dt_vars, mg_vars, sh_vars, up_vars, tp_vars, rest_vars >>

NextConf == Score

SpecConf == InitConf /\ [][NextConf]_vars

-----------------------------------------------------------------------------
(* calculate_overall_confidence_enhanced called directly *)

AggCategories == { SplitHead(CAT_E, "("), SplitHead(CAT_S, "("), SplitHead(CAT_G, "(") }

AggConfidences == { 0, 69 * Hundredth, 70 * Hundredth, 71 * Hundredth, Scale }

AggInputs ==
    { [ i \in DOMAIN l |-> [ category |-> l[i][1], confidence |-> l[i][2] ] ] :
        l \in SeqsUpTo(AggCategories \X AggConfidences, MaxAggLen) }

InitAgg ==
    /\ PipelineIdle
    /\ dd_pc = "idle" /\ dd_issues = << >> /\ dd_unique = << >> /\ dd_twice = << >>
    /\ cf_pc = "idle" /\ cf_args = << >> /\ cf_confidence = 0
    /\ ag_pc = "start"
    /\ \E issues \in AggInputs, industry \in { GITA, JEONRYEOK } :
          ag_args = [ issues |-> issues, industry |-> industry ]
    /\ ag_result = << >>
    /\ kw_pc = "idle" /\ kw_args = << >> /\ kw_result = << >>
    /\ RankIdle /\ DetectIdle /\ MergeIdle /\ SharedIdle /\ UploadIdle /\ TopIdle /\ RestIdle

Aggregate ==
    /\ ag_pc = "start"
    /\ ag_result' = calculate_overall_confidence_enhanced(
                        ag_args.issues, << >>, ag_args.industry)
    /\ ag_pc' = "done"
    /\ UNCHANGED << UNIVERSAL_ESG_ISSUES, elements, runs, dd_pc, dd_issues, dd_unique,
                    dd_twice, cf_pc, cf_args, cf_confidence, ag_args,
                    kw_pc, kw_args, kw_result >>
    /\ UNCHANGED << rk_vars, dt_vars, mg_vars, sh_vars, up_vars, tp_vars, rest_vars >>

NextAgg == Aggregate

SpecAgg == InitAgg /\ [][NextAgg]_vars

-----------------------------------------------------------------------------
(* get_dynamic_keywords_for_issue called directly, for a loaded catalog *)

UnknownIndustry == "geonseol"     \* "건설", an industry no table lists

InitResolver ==
    /\ UNIVERSAL_ESG_ISSUES \in Catalogs
    /\ elements = << >>
    /\ runs = << >>
    /\ dd_pc = "idle" /\ dd_issues = << >> /\ dd_unique = << >> /\ dd_twice = << >>
    /\ cf_pc = "idle" /\ cf_args = << >> /\ cf_confidence = 0
    /\ ag_pc = "idle" /\ ag_args = << >> /\ ag_result = << >>
    /\ kw_pc = "start"
    /\ \E issue_name \in IssueNames \cup { UnknownIssue, KeywordAsIssue },
          industry \in Industries \cup { UnknownIndustry }, seed \in Seeds :
          kw_args = [ issue_name |-> issue_name, industry |-> industry, seed |-> seed ]
    /\ kw_result = << >>
    /\ RankIdle /\ DetectIdle /\ MergeIdle /\ SharedIdle /\ UploadIdle /\ TopIdle /\ RestIdle

Resolve ==
    /\ kw_pc = "start"
    /\ kw_result' = get_dynamic_keywords_for_issue(
                        kw_args.issue_name, kw_args.industry, kw_args.seed)
    /\ kw_pc' = "done"
    /\ UNCHANGED << UNIVERSAL_ESG_ISSUES, elements, runs, dd_pc, dd_issues, dd_unique,
                    dd_twice, cf_pc, cf_args, cf_confidence, ag_pc, ag_args, ag_result,
                    kw_args >>
    /\ UNCHANGED << rk_vars, dt_vars, mg_vars, sh_vars, up_vars, tp_vars, rest_vars >>

NextResolver == Resolve

SpecResolver == InitResolver /\ [][NextResolver]_vars

-----------------------------------------------------------------------------
(* apply_industry_priority called directly on a confidence-sorted list *)

MaxRankLen == 3       \* longest candidate list given to the ranker

RankConfidences == { 40 * Hundredth, 60 * Hundredth }

\* candidate lists in the order the caller sorted them (confidence descending)
RankInputs ==
    { SortDesc([ i \in DOMAIN l |-> [ issue_id |-> i, issue_name |-> l[i][1],
                                      confidence |-> l[i][2] ] ], "confidence") :
        l \in SeqsUpTo(IssueNames \X RankConfidences, MaxRankLen) }

InitRank ==
    /\ PipelineIdle /\ FunctionsIdle
    /\ rk_pc = "start"
    /\ \E issues \in RankInputs, industry \in Industries :
          rk_args = [ issues |-> issues, industry |-> industry ]
    /\ rk_result = << >>
    /\ DetectIdle /\ MergeIdle /\ SharedIdle /\ UploadIdle /\ TopIdle /\ RestIdle

Rank ==
    /\ rk_pc = "start"
    /\ rk_result' = apply_industry_priority(rk_args.issues, rk_args.industry)
    /\ rk_pc' = "done"
    /\ UNCHANGED << pipeline_vars, fn_vars, rk_args, dt_vars, mg_vars, sh_vars, up_vars,
                    tp_vars, rest_vars >>

NextRank == Rank

SpecRank == InitRank /\ [][NextRank]_vars

-----------------------------------------------------------------------------
(* detect_industry_from_text called on a text, and again each time one more *)
(* occurrence of a detection keyword has been written into the text        *)

MaxOccurrences == 6   \* keyword occurrences written into the analysed text

\* every keyword of AUTO_INDUSTRY_DETECTION
DetectionKeywords ==
    UNION { Range(AUTO_INDUSTRY_DETECTION[i].keywords) : i \in DOMAIN AUTO_INDUSTRY_DETECTION }

\* one call: the text, industry_scores and the returned industry
DetectCall(text) ==
    [ text |-> text,
      industry_scores |-> IndustryScores(text),
      detected_industry |-> detect_industry_from_text(text) ]

\* the number of blank-separated words of a text
WordCount(text) == IF text = << >> THEN 0 ELSE Count(text, << SP >>) + 1

InitDetect ==
    /\ PipelineIdle /\ FunctionsIdle /\ RankIdle
    /\ dt_text = << >>
    /\ dt_added = << >>
    /\ dt_prev = << >>
    /\ dt_last = DetectCall(<< >>)
    /\ MergeIdle /\ SharedIdle /\ UploadIdle /\ TopIdle /\ RestIdle

AddOccurrence ==
    /\ WordCount(dt_text) < MaxOccurrences
    /\ \E keyword \in DetectionKeywords :
          LET text == IF dt_text = << >> THEN keyword ELSE dt_text \o << SP >> \o keyword
          IN  /\ dt_text' = text
              /\ dt_added' = keyword
              /\ dt_prev' = dt_last
              /\ dt_last' = DetectCall(text)
    /\ UNCHANGED << pipeline_vars, fn_vars, rk_vars, mg_vars, sh_vars, up_vars, tp_vars, rest_vars >>

NextDetect == AddOccurrence

SpecDetect == InitDetect /\ [][NextDetect]_vars

-----------------------------------------------------------------------------
(* merge_extraction_results called with the ranked issues of a document of *)
(* the "전력" industry and the answer of the external analyser             *)

MaxMergeLen == 2      \* longest internal list and longest external list

\* ranked internal candidates, as the pipeline returns them
MergeInternal ==
    { apply_industry_priority(
          [ i \in DOMAIN l |-> [ issue_id |-> i, issue_name |-> l[i],
                                 confidence |-> 60 * Hundredth ] ], JEONRYEOK) :
        l \in SeqsUpTo({ ISSUE_GONGGEUPMANG, ISSUE_GIHU }, MaxMergeLen) }

ExternalNames ==
    { << "gong", "geup", "mang", SP, "gwan", "ri", SP, "che", "gye" >>,  \* "공급망 관리 체계"
      << "gong", "geup", "mang", SP, "ri", "seu", "keu", SP, "che", "gye", SP,
         "gu", "chuk" >>,                                  \* "공급망 리스크 체계 구축"
      << "E", "S", "G", SP, "gyeong", "yeong" >>,          \* "ESG 경영"
      << "e", "s", "g", SP, "in", "gwon" >>,               \* "esg 인권"
      << >> }                                              \* no name

MergeExternal ==
    SeqsUpTo([ issue_name : ExternalNames, confidence : { 30 * Hundredth, 90 * Hundredth } ],
             MaxMergeLen)

GeminiResults ==
    [ success : BOOLEAN, data : { NoData } ]
    \cup { [ success |-> ok, data |-> [ materiality_issues |-> l ] ] :
             ok \in BOOLEAN, l \in MergeExternal }

InitMerge ==
    /\ PipelineIdle /\ FunctionsIdle /\ RankIdle /\ DetectIdle
    /\ mg_pc = "start"
    /\ \E client \in { "GeminiClient", "GeminiService" },
          unstructured_issues \in MergeInternal, gemini_result \in GeminiResults :
          mg_args = [ client |-> client, unstructured_issues |-> unstructured_issues,
                      gemini_result |-> gemini_result ]
    /\ mg_result = << >>
    /\ SharedIdle /\ UploadIdle /\ TopIdle /\ RestIdle

Merge ==
    /\ mg_pc = "start"
    /\ mg_result' =
          IF mg_args.client = "GeminiClient"
          THEN merge_extraction_results(mg_args.unstructured_issues, mg_args.gemini_result)
          ELSE GeminiService_merge_extraction_results(
                   mg_args.unstructured_issues, mg_args.gemini_result)
    /\ mg_pc' = "done"
    /\ UNCHANGED << pipeline_vars, fn_vars, rk_vars, dt_vars, mg_args, sh_vars, up_vars,
                    tp_vars, rest_vars >>

NextMerge == Merge

SpecMerge == InitMerge /\ [][NextMerge]_vars

-----------------------------------------------------------------------------
(* Concurrent runs of extract_materiality_issues_enhanced in one process:  *)
(* every caller has its own segment list and locals, the catalogs and the  *)
(* string hash are the process's; a step is one stage of the function.     *)

NumWorkers == 2       \* concurrent callers of the pipeline

Workers == 1..NumWorkers

\* a caller's document: empty, or one segment that names an issue or an industry
SharedInputs ==
    SeqsUpTo({ e \in Elements : /\ e.page_number = None
                                /\ e.text \in { TextGihu, TextHanjeon } }, 1)

\* the locals of a call that has not begun; `earlier` records the callers whose run
\* had begun when this one began
NoLocals ==
    [ detected_industry |-> "", next |-> 1, issues |-> << >>,
      prioritized_issues |-> << >>, result |-> << >>, earlier |-> { } ]

\* a run touches nothing but the catalog and its caller's locals
SharedFrame == UNCHANGED << fn_vars, rk_vars, dt_vars, mg_vars, up_vars, tp_vars, rest_vars >>

InitShared ==
    /\ PipelineIdle /\ FunctionsIdle /\ RankIdle /\ DetectIdle /\ MergeIdle
    /\ sh_pc = [ w \in Workers |-> "start" ]
    /\ sh_elems \in [ Workers -> SharedInputs ]
    /\ sh_local = [ w \in Workers |-> NoLocals ]
    /\ sh_seed \in Seeds
    /\ UploadIdle /\ TopIdle /\ RestIdle

\* steps 1 and 2: full_text, detected_industry
ShDetect(w) ==
    /\ sh_pc[w] = "start"
    /\ sh_local' = [ sh_local EXCEPT
                        ![w].detected_industry =
                            detect_industry_from_text(FullText(sh_elems[w])),
                        ![w].earlier = { v \in Workers : sh_pc[v] # "start" } ]
    /\ sh_pc' = [ sh_pc EXCEPT ![w] = "scan" ]
    /\ UNCHANGED << pipeline_vars, sh_elems, sh_seed >>
    /\ SharedFrame

\* step 3, one pass of the element loop
ShScan(w) ==
    /\ sh_pc[w] = "scan"
    /\ sh_local[w].next <= Len(sh_elems[w])
    /\ LET element == sh_elems[w][sh_local[w].next]
           detected_industry == sh_local[w].detected_industry
           issues == sh_local[w].issues
           found == ElementIssues(element, detected_industry, sh_seed)
       IN  /\ sh_local' =
                 [ sh_local EXCEPT
                     ![w].issues = issues \o [ i \in DOMAIN found |->
                                                 found[i] @@ [ issue_id |-> Len(issues) + i ] ],
                     ![w].next = @ + 1 ]
           /\ UNIVERSAL_ESG_ISSUES' =
                 CatalogAfterElement(UNIVERSAL_ESG_ISSUES, element, detected_industry)
    /\ UNCHANGED << elements, runs, sh_pc, sh_elems, sh_seed >>
    /\ SharedFrame

\* steps 4 and 5, when the element loop has ended
ShRank(w) ==
    /\ sh_pc[w] = "scan"
    /\ sh_local[w].next > Len(sh_elems[w])
    /\ sh_local' = [ sh_local EXCEPT ![w].prioritized_issues =
                        PrioritizedIssues(sh_local[w].issues, sh_local[w].detected_industry) ]
    /\ sh_pc' = [ sh_pc EXCEPT ![w] = "ranked" ]
    /\ UNCHANGED << pipeline_vars, sh_elems, sh_seed >>
    /\ SharedFrame

\* step 6 and the return
ShBuild(w) ==
    /\ sh_pc[w] = "ranked"
    /\ sh_local' = [ sh_local EXCEPT ![w].result =
                        BuildResult(sh_local[w].prioritized_issues,
                                    IssueConfidenceScores(sh_local[w].issues),
                                    sh_local[w].detected_industry) ]
    /\ sh_pc' = [ sh_pc EXCEPT ![w] = "done" ]
    /\ UNCHANGED << pipeline_vars, sh_elems, sh_seed >>
    /\ SharedFrame

NextShared == \E w \in Workers : ShDetect(w) \/ ShScan(w) \/ ShRank(w) \/ ShBuild(w)

SpecShared == InitShared /\ [][NextShared]_vars

-----------------------------------------------------------------------------
(* POST /upload-fast: upload_document_fast and, inside it,                 *)
(* DocumentProcessingService.process_document.  up_elements is the number  *)
(* of elements in `elements`, up_raised the exception in flight.           *)

MaxPdfElements == 3   \* most elements a strategy extracts from the uploaded file

\* partition_pdf raises
Fails == 0 - 1

\* what the environment decides: whether the temporary file can be written, what each
\* strategy extracts (or that it fails), whether the analysis of the elements raises
Uploads ==
    [ writable : BOOLEAN, fast : Fails..MaxPdfElements, ocr : Fails..MaxPdfElements,
      analysis_raises : BOOLEAN ]

HTTPException(status_code) == [ type |-> "HTTPException", status_code |-> status_code ]

OtherException == [ type |-> "Exception", status_code |-> None ]

\* a request touches nothing but its own state
UploadFrame ==
    UNCHANGED << pipeline_vars, fn_vars, rk_vars, dt_vars, mg_vars, sh_vars, tp_vars, rest_vars >>

InitUpload ==
    /\ PipelineIdle /\ FunctionsIdle /\ RankIdle /\ DetectIdle /\ MergeIdle /\ SharedIdle
    /\ up_pc = "request"
    /\ up_pdf \in Uploads
    /\ up_elements = None
    /\ up_raised = << >>
    /\ up_response = 0
    /\ up_temp = FALSE
    /\ TopIdle /\ RestIdle

\* the temporary file is written
SaveFile ==
    /\ up_pc = "request"
    /\ IF up_pdf.writable
       THEN up_temp' = TRUE /\ up_pc' = "saved" /\ UNCHANGED up_raised
       ELSE up_raised' = << OtherException >> /\ up_pc' = "endpoint_except"
            /\ UNCHANGED up_temp
    /\ UNCHANGED << up_pdf, up_elements, up_response >>
    /\ UploadFrame

\* _process_pdf_fast: the elements, or [] when partition_pdf raises
FastStrategy ==
    /\ up_pc = "saved"
    /\ up_elements' = IF up_pdf.fast = Fails THEN 0 ELSE up_pdf.fast
    /\ up_pc' = "fast_done"
    /\ UNCHANGED << up_pdf, up_raised, up_response, up_temp >>
    /\ UploadFrame

\* `if not elements or len(elements) < 3`: _process_pdf_lightweight_ocr replaces them
OcrStrategy ==
    /\ up_pc = "fast_done"
    /\ IF up_elements < 3
       THEN up_elements' = IF up_pdf.ocr = Fails THEN 0 ELSE up_pdf.ocr
       ELSE UNCHANGED up_elements
    /\ up_pc' = "extracted"
    /\ UNCHANGED << up_pdf, up_raised, up_response, up_temp >>
    /\ UploadFrame

\* `if not elements: raise HTTPException(status_code=422, ...)`, inside the try block
NoText ==
    /\ up_pc = "extracted"
    /\ up_elements = 0
    /\ up_raised' = << HTTPException(422) >>
    /\ up_pc' = "service_except"
    /\ UNCHANGED << up_pdf, up_elements, up_response, up_temp >>
    /\ UploadFrame

\* industry detection, structure, ESG content, issue extraction, result
Analyse ==
    /\ up_pc = "extracted"
    /\ up_elements > 0
    /\ IF up_pdf.analysis_raises
       THEN up_raised' = << OtherException >> /\ up_pc' = "service_except"
       ELSE up_pc' = "service_return" /\ UNCHANGED up_raised
    /\ UNCHANGED << up_pdf, up_elements, up_response, up_temp >>
    /\ UploadFrame

\* process_document, `except Exception as e`: whatever was raised in the try block is
\* replaced (HTTPException is a subclass of Exception)
ServiceExcept ==
    /\ up_pc = "service_except"
    /\ up_raised' = << HTTPException(500) >>
    /\ up_pc' = "endpoint_except"
    /\ UNCHANGED << up_pdf, up_elements, up_response, up_temp >>
    /\ UploadFrame

\* upload_document_fast, `return JSONResponse(content=result)`
Respond ==
    /\ up_pc = "service_return"
    /\ up_response' = 200
    /\ up_pc' = "finally"
    /\ UNCHANGED << up_pdf, up_elements, up_raised, up_temp >>
    /\ UploadFrame

\* upload_document_fast, `except HTTPException: raise` and `except Exception as e`
EndpointExcept ==
    /\ up_pc = "endpoint_except"
    /\ up_response' = IF up_raised[1].type = "HTTPException"
                      THEN up_raised[1].status_code
                      ELSE 500
    /\ up_pc' = "finally"
    /\ UNCHANGED << up_pdf, up_elements, up_raised, up_temp >>
    /\ UploadFrame

\* upload_document_fast, `finally`: the temporary file is removed
Finally ==
    /\ up_pc = "finally"
    /\ up_temp' = FALSE
    /\ up_pc' = "responded"
    /\ UNCHANGED << up_pdf, up_elements, up_raised, up_response >>
    /\ UploadFrame

NextUpload ==
    \/ SaveFile \/ FastStrategy \/ OcrStrategy \/ NoText \/ Analyse
    \/ ServiceExcept \/ Respond \/ EndpointExcept \/ Finally

SpecUpload == InitUpload /\ [][NextUpload]_vars

-----------------------------------------------------------------------------
(* Steps 4 to 6 of extract_materiality_issues_enhanced on the candidates   *)
(* that the element loop of a long document has collected                  *)

MaxExtra == 2         \* candidates beyond the cap of 20

CategoryOf(issue_name) ==
    IF issue_name = ISSUE_GIHU THEN SplitHead(CAT_E, "(")
    ELSE IF issue_name = ISSUE_YUNRI THEN SplitHead(CAT_G, "(")
    ELSE SplitHead(CAT_S, "(")

\* the issues most segments of the document match, page after page, confidence 0.6
CommonIssues == << ISSUE_YUNRI, ISSUE_GOGAEK, ISSUE_GONGGEUPMANG >>

CommonCandidate(i) ==
    [ issue_name |-> CommonIssues[(i % 3) + 1], page_number |-> i,
      confidence |-> 60 * Hundredth ]

\* what the last two candidates can be: any issue at 0.5 or 0.8, on a page of their
\* own or on page 1
LateCandidates(i) ==
    [ issue_name : { ISSUE_GIHU, ISSUE_YUNRI }, page_number : { i, 1 },
      confidence : { 50 * Hundredth, 80 * Hundredth } ]

TopInputs ==
    { [ i \in 1..n |->
          LET c == IF i = n - 1 THEN late1 ELSE IF i = n THEN late2 ELSE CommonCandidate(i)
          IN  [ issue_id |-> i, issue_name |-> c.issue_name,
                category |-> CategoryOf(c.issue_name), page_number |-> c.page_number,
                confidence |-> c.confidence ] ] :
        n \in (TopCap - 1)..(TopCap + MaxExtra),
        late1 \in LateCandidates(TopCap + MaxExtra + 1),
        late2 \in LateCandidates(TopCap + MaxExtra + 2) }

InitTop ==
    /\ PipelineIdle /\ FunctionsIdle /\ RankIdle /\ DetectIdle /\ MergeIdle /\ SharedIdle
    /\ UploadIdle /\ RestIdle
    /\ tp_pc = "start"
    /\ \E issues \in TopInputs, detected_industry \in Industries :
          tp_args = [ issues |-> issues, detected_industry |-> detected_industry ]
    /\ tp_result = << >>

RankAndBuild ==
    /\ tp_pc = "start"
    /\ tp_result' = BuildResult(
                        PrioritizedIssues(tp_args.issues, tp_args.detected_industry),
                        IssueConfidenceScores(tp_args.issues), tp_args.detected_industry)
    /\ tp_pc' = "done"
    /\ UNCHANGED << pipeline_vars, fn_vars, rk_vars, dt_vars, mg_vars, sh_vars, up_vars,
                    tp_args, rest_vars >>

NextTop == RankAndBuild

SpecTop == InitTop /\ [][NextTop]_vars

-----------------------------------------------------------------------------
(* Steps 2 and 3 of extract_materiality_issues_enhanced: the industry is   *)
(* detected and the element loop collects `issues`, on segments at the     *)
(* edges of the pre-filter and of the excerpt                              *)

MaxScanLen == 2       \* segments in the scanned list

Filler(n) == [ i \in 1..n |-> "x" ]

\* "탄소" and 17 more characters: 19 characters, no vocabulary term
TextShortNamed == << "tan", "so" >> \o Filler(17)
\* "탄소" and 18 more characters: 20 characters
TextLongEnough == << "tan", "so" >> \o Filler(18)
\* the 19 characters between white space
TextPadded == << SP, "\n" >> \o TextShortNamed \o << SP, "\t" >>
\* 20 characters that name nothing
TextBlank == Filler(20)
\* "탄소" after 500 other characters
TextPastCut == Filler(500) \o << "tan", "so" >>

ScanTexts ==
    { TextShortNamed, TextLongEnough, TextPadded, TextBlank, TextPastCut,
      TextGihu, TextTanso, TextHanjeon, TextEunhaeng }

\* the pages a scanned text is found on
ScanPages(t) ==
    IF t = TextLongEnough THEN Pages
    ELSE IF t \in { TextPadded, TextBlank, TextGihu, TextEunhaeng } THEN { None }
    ELSE { 1 }

ScanElements ==
    UNION { { [ text |-> t, page_number |-> p, element_type |-> "NarrativeText" ] :
                p \in ScanPages(t) } : t \in ScanTexts }

InitScan ==
    /\ PipelineIdle /\ FunctionsIdle /\ RankIdle /\ DetectIdle /\ MergeIdle /\ SharedIdle
    /\ UploadIdle /\ TopIdle /\ QuotaIdle /\ TempFileIdle /\ VisionIdle
    /\ sc_pc = "start"
    /\ \E elems \in SeqsUpTo(ScanElements, MaxScanLen), seed \in Seeds :
          sc_args = [ elements |-> elems, seed |-> seed ]
    /\ sc_result = << >>

ElementLoop ==
    /\ sc_pc = "start"
    /\ LET detected_industry == detect_industry_from_text(FullText(sc_args.elements))
       IN  sc_result' = [ detected_industry |-> detected_industry,
                          issues |-> RawIssues(sc_args.elements, detected_industry,
                                               sc_args.seed) ]
    /\ sc_pc' = "done"
    /\ UNCHANGED << pipeline_vars, fn_vars, rk_vars, dt_vars, mg_vars, sh_vars, up_vars,
                    tp_vars, sc_args, qm_vars, pf_vars, vs_vars >>

NextScan == ElementLoop

SpecScan == InitScan /\ [][NextScan]_vars

-----------------------------------------------------------------------------
(* The cost manager of one server process and the requests that use it.    *)
(* qm_usage is usage_data restricted to today: << >> or one APIUsage.      *)
(* qm_lock is the caller holding _lock, 0 when it is free.  Costs are in   *)
(* units of the input-token price of gemini-1.5-flash.  Requests           *)
(* interleave between the calls they make on the cost manager, and inside  *)
(* record_api_call and reset_daily_usage while the lock is held.           *)

NumCallers == 2       \* requests in flight at the same time

Callers == 1..NumCallers

FREE_MODEL == "gemini-2.0-flash"
PAID_MODEL == "gemini-1.5-flash"

\* price per token
PRICING ==
    (FREE_MODEL :> [ input |-> 0, output |-> 0 ]) @@
    (PAID_MODEL :> [ input |-> 1, output |-> 4 ])

estimate_cost(model, input_tokens, output_tokens) ==
    LET pricing == IF model \in DOMAIN PRICING THEN PRICING[model] ELSE PRICING[PAID_MODEL]
    IN  (input_tokens * pricing.input) + (output_tokens * pricing.output)

\* APIUsage(date=today)
NewUsage == [ requests_count |-> 0, tokens_used |-> 0, estimated_cost |-> 0 ]

\* usage_data after get_today_usage; the entry it returns is the first element
get_today_usage(usage_data) == IF usage_data = << >> THEN << NewUsage >> ELSE usage_data

check_limits(usage_data, limits) ==
    LET today_usage == get_today_usage(usage_data)[1]
    IN  IF today_usage.requests_count >= limits.daily_request_limit THEN FALSE
        ELSE IF today_usage.estimated_cost >= limits.daily_cost_limit THEN FALSE
        ELSE TRUE

\* mutant: the pre-request check without the estimated cost
pre_request_check_LimitsOnly(usage_data, limits, model, estimated_input_tokens) ==
    check_limits(usage_data, limits)

pre_request_check(usage_data, limits, model, estimated_input_tokens) ==
    IF ~check_limits(usage_data, limits) THEN FALSE
    ELSE LET estimated_cost == estimate_cost(model, estimated_input_tokens, 0)
             today_usage == get_today_usage(usage_data)[1]
         IN  ~((today_usage.estimated_cost + estimated_cost) > limits.daily_cost_limit)

\* mutant: the record forgets the tokens
Recorded_NoTokens(usage_data, input_tokens, output_tokens, cost) ==
    LET today_usage == get_today_usage(usage_data)[1]
    IN  << [ requests_count |-> today_usage.requests_count + 1,
             tokens_used |-> today_usage.tokens_used,
             estimated_cost |-> today_usage.estimated_cost + cost ] >>

\* usage_data after the three updates of record_api_call
Recorded(usage_data, input_tokens, output_tokens, cost) ==
    LET today_usage == get_today_usage(usage_data)[1]
    IN  << [ requests_count |-> today_usage.requests_count + 1,
             tokens_used |-> today_usage.tokens_used + input_tokens + output_tokens,
             estimated_cost |-> today_usage.estimated_cost + cost ] >>

\* what a request is: an upload (record_api_call("unstructured", 0, 0, 0.0) at its
\* end), a text extraction on a model, or a reset of today's usage
QuotaRequests ==
    { [ kind |-> "upload", model |-> "unstructured", input_tokens |-> 0,
        output_tokens |-> 0 ],
      [ kind |-> "text", model |-> FREE_MODEL, input_tokens |-> 2, output_tokens |-> 1 ],
      [ kind |-> "text", model |-> PAID_MODEL, input_tokens |-> 2, output_tokens |-> 1 ],
      [ kind |-> "reset", model |-> "", input_tokens |-> 0, output_tokens |-> 0 ] }

\* the cost record_api_call is given or computes
CostOf(req) ==
    IF req.kind = "upload" THEN 0
    ELSE estimate_cost(req.model, req.input_tokens, req.output_tokens)

QuotaLimits == [ daily_request_limit : { 1, 2 }, daily_cost_limit : { 7 } ]

\* today's usage when the requests arrive: within the request limit, and with a cost
\* only when requests were recorded
QuotaUsages(limits) ==
    { << >> } \cup
    { << u >> : u \in { v \in [ requests_count : 0..limits.daily_request_limit,
                                tokens_used : { 0, 3 },
                                estimated_cost : { 0, 6, 7 } ] :
                          /\ v.requests_count = 0 => v.estimated_cost = 0
                          /\ v.tokens_used = 0 <=> v.estimated_cost = 0 } }

\* a request not yet served: nothing recorded, nothing refused, no work done
Fresh(req) ==
    req @@ [ recorded |-> FALSE, worked |-> FALSE, seen |-> NewUsage,
             before |-> NewUsage, after |-> NewUsage ]

QuotaFrame ==
    UNCHANGED << pipeline_vars, fn_vars, rk_vars, dt_vars, mg_vars, sh_vars, up_vars,
                 tp_vars, sc_vars, pf_vars, vs_vars, qm_limits >>

InitQuota ==
    /\ PipelineIdle /\ FunctionsIdle /\ RankIdle /\ DetectIdle /\ MergeIdle /\ SharedIdle
    /\ UploadIdle /\ TopIdle /\ ScanIdle /\ TempFileIdle /\ VisionIdle
    /\ qm_limits \in QuotaLimits
    /\ qm_usage \in QuotaUsages(qm_limits)
    /\ qm_lock = 0
    /\ qm_pc = [ c \in Callers |-> "start" ]
    /\ \E reqs \in [ Callers -> QuotaRequests ] :
          qm_req = [ c \in Callers |-> Fresh(reqs[c]) ]

\* the request has passed its check: what the check saw of today's usage
Passed(c) == [ qm_req EXCEPT ![c].seen = get_today_usage(qm_usage)[1] ]

\* the request is refused: today's usage before the check, and as the check left it
Refused(c) ==
    [ qm_req EXCEPT ![c].seen = get_today_usage(qm_usage)[1],
                    ![c].before = get_today_usage(qm_usage)[1],
                    ![c].after = get_today_usage(qm_usage)[1] ]

\* DocumentProcessingService.check_usage_limit at the start of an upload
CheckUsageLimit(c) ==
    /\ qm_pc[c] = "start" /\ qm_req[c].kind = "upload"
    /\ qm_usage' = get_today_usage(qm_usage)
    /\ IF check_limits(qm_usage, qm_limits)
       THEN qm_pc' = [ qm_pc EXCEPT ![c] = "checked" ] /\ qm_req' = Passed(c)
       ELSE qm_pc' = [ qm_pc EXCEPT ![c] = "refused" ] /\ qm_req' = Refused(c)
    /\ UNCHANGED qm_lock
    /\ QuotaFrame

\* the pre-request check of GeminiClient.extract_issues_from_text
PreRequestCheck(c) ==
    /\ qm_pc[c] = "start" /\ qm_req[c].kind = "text"
    /\ qm_usage' = get_today_usage(qm_usage)
    /\ IF pre_request_check(qm_usage, qm_limits, qm_req[c].model, qm_req[c].input_tokens)
       THEN qm_pc' = [ qm_pc EXCEPT ![c] = "checked" ] /\ qm_req' = Passed(c)
       ELSE qm_pc' = [ qm_pc EXCEPT ![c] = "refused" ] /\ qm_req' = Refused(c)
    /\ UNCHANGED qm_lock
    /\ QuotaFrame

\* the upload is saved and processed; the processing returns or raises
ProcessPdf(c) ==
    /\ qm_pc[c] = "checked" /\ qm_req[c].kind = "upload"
    /\ \E outcome \in { "processed", "failed" } :
          qm_pc' = [ qm_pc EXCEPT ![c] = outcome ]
    /\ qm_req' = [ qm_req EXCEPT ![c].worked = TRUE ]
    /\ UNCHANGED << qm_usage, qm_lock >>
    /\ QuotaFrame

\* the external call: it answers, or raises or answers nothing
GenerateContent(c) ==
    /\ qm_pc[c] = "checked" /\ qm_req[c].kind = "text"
    /\ \E outcome \in { "processed", "failed" } :
          qm_pc' = [ qm_pc EXCEPT ![c] = outcome ]
    /\ qm_req' = [ qm_req EXCEPT ![c].worked = TRUE ]
    /\ UNCHANGED << qm_usage, qm_lock >>
    /\ QuotaFrame

\* record_api_call up to the lock: acquire(blocking=False), and return when it fails
RecordAcquire(c) ==
    /\ qm_pc[c] = "processed"
    /\ IF qm_lock = 0
       THEN qm_lock' = c /\ qm_pc' = [ qm_pc EXCEPT ![c] = "locked" ]
       ELSE qm_pc' = [ qm_pc EXCEPT ![c] = "done" ] /\ UNCHANGED qm_lock
    /\ UNCHANGED << qm_usage, qm_req >>
    /\ QuotaFrame

\* record_api_call under the lock: the update, the save, the release
RecordUpdate(c) ==
    /\ qm_pc[c] = "locked"
    /\ qm_usage' = Recorded(qm_usage, qm_req[c].input_tokens, qm_req[c].output_tokens,
                            CostOf(qm_req[c]))
    /\ qm_req' = [ qm_req EXCEPT ![c].recorded = TRUE,
                                 ![c].before = get_today_usage(qm_usage)[1],
                                 ![c].after = qm_usage'[1] ]
    /\ qm_lock' = 0
    /\ qm_pc' = [ qm_pc EXCEPT ![c] = "done" ]
    /\ QuotaFrame

\* reset_daily_usage up to `with self._lock`, which waits for the lock
ResetAcquire(c) ==
    /\ qm_pc[c] = "start" /\ qm_req[c].kind = "reset"
    /\ qm_lock = 0
    /\ qm_lock' = c
    /\ qm_pc' = [ qm_pc EXCEPT ![c] = "resetting" ]
    /\ UNCHANGED << qm_usage, qm_req >>
    /\ QuotaFrame

\* reset_daily_usage under the lock: today's entry is deleted
ResetDelete(c) ==
    /\ qm_pc[c] = "resetting"
    /\ qm_usage' = << >>
    /\ qm_lock' = 0
    /\ qm_pc' = [ qm_pc EXCEPT ![c] = "done" ]
    /\ UNCHANGED qm_req
    /\ QuotaFrame

NextQuota ==
    \E c \in Callers :
        \/ CheckUsageLimit(c) \/ PreRequestCheck(c) \/ ProcessPdf(c) \/ GenerateContent(c)
        \/ RecordAcquire(c) \/ RecordUpdate(c) \/ ResetAcquire(c) \/ ResetDelete(c)

SpecQuota == InitQuota /\ [][NextQuota]_vars

-----------------------------------------------------------------------------
(* POST /upload: DocumentProcessingService.process_uploaded_file and,      *)
(* inside it, _process_pdf.  pf_temp tells whether the temporary file      *)
(* exists; pf_out holds the exception in flight, whether the file was ever *)
(* created, and the status the call ends with.                             *)

ALLOWED_EXTENSIONS == { "pdf", "png", "jpg", "jpeg" }

\* what the request and the environment decide: the file's extension and size, whether
\* the quota check passes, how writing the temporary file goes, whether the service has
\* a processor, what each processing pass extracts (or that it raises), and whether
\* the analysis of the elements raises
UploadedFiles ==
    [ extension : { "pdf", "png", "exe" }, oversize : BOOLEAN, quota_ok : BOOLEAN,
      save : { "written", "copy_raises", "open_raises" }, processor : BOOLEAN,
      plain : Fails..MaxPdfElements, ocr : Fails..MaxPdfElements,
      analysis_raises : BOOLEAN ]

NoOutcome == [ raised |-> << >>, created |-> FALSE, status |-> 0 ]

TempFileFrame ==
    UNCHANGED << pipeline_vars, fn_vars, rk_vars, dt_vars, mg_vars, sh_vars, up_vars,
                 tp_vars, sc_vars, qm_vars, vs_vars, pf_in >>

InitTempFile ==
    /\ PipelineIdle /\ FunctionsIdle /\ RankIdle /\ DetectIdle /\ MergeIdle /\ SharedIdle
    /\ UploadIdle /\ TopIdle /\ ScanIdle /\ QuotaIdle /\ VisionIdle
    /\ pf_pc = "request"
    /\ pf_in \in UploadedFiles
    /\ pf_temp = FALSE
    /\ pf_out = NoOutcome

\* validate_file and check_usage_limit, before the try block: what they raise leaves
\* the call at once
PfPreChecks ==
    /\ pf_pc = "request"
    /\ IF pf_in.oversize
       THEN pf_out' = [ pf_out EXCEPT !.status = 413 ] /\ pf_pc' = "ended"
       ELSE IF pf_in.extension \notin ALLOWED_EXTENSIONS
       THEN pf_out' = [ pf_out EXCEPT !.status = 400 ] /\ pf_pc' = "ended"
       ELSE IF ~pf_in.quota_ok
       THEN pf_out' = [ pf_out EXCEPT !.status = 429 ] /\ pf_pc' = "ended"
       ELSE pf_pc' = "try" /\ UNCHANGED pf_out
    /\ UNCHANGED pf_temp
    /\ TempFileFrame

\* `with open(temp_path, "wb") as buffer: shutil.copyfileobj(file.file, buffer)`
PfSaveFile ==
    /\ pf_pc = "try"
    /\ IF pf_in.save = "written"
       THEN /\ pf_temp' = TRUE
            /\ pf_out' = [ pf_out EXCEPT !.created = TRUE ]
            /\ pf_pc' = "saved"
       ELSE IF pf_in.save = "copy_raises"
       THEN /\ pf_temp' = TRUE
            /\ pf_out' = [ pf_out EXCEPT !.created = TRUE, !.raised = << OtherException >> ]
            /\ pf_pc' = "except"
       ELSE /\ pf_out' = [ pf_out EXCEPT !.raised = << OtherException >> ]
            /\ pf_pc' = "except"
            /\ UNCHANGED pf_temp
    /\ TempFileFrame

\* what _process_pdf raises, << >> when it returns its result
ProcessPdfRaises(in) ==
    IF ~in.processor THEN << HTTPException(500) >>
    ELSE IF in.plain = Fails THEN << OtherException >>
    ELSE IF in.plain = 0 /\ in.ocr = Fails THEN << OtherException >>
    ELSE IF in.plain = 0 /\ in.ocr = 0 THEN << HTTPException(422) >>
    ELSE IF in.analysis_raises THEN << OtherException >>
    ELSE << >>

\* `if file_extension == "pdf": return await self._process_pdf(...)`, else 501
PfProcess ==
    /\ pf_pc = "saved"
    /\ LET raised == IF pf_in.extension = "pdf" THEN ProcessPdfRaises(pf_in)
                     ELSE << HTTPException(501) >>
       IN  /\ pf_out' = [ pf_out EXCEPT !.raised = raised ]
           /\ pf_pc' = IF raised = << >> THEN "finally" ELSE "except"
    /\ UNCHANGED pf_temp
    /\ TempFileFrame

\* `except HTTPException: raise` and `except Exception as e: raise HTTPException(500)`
PfExcept ==
    /\ pf_pc = "except"
    /\ pf_out' = [ pf_out EXCEPT !.raised =
                     IF pf_out.raised[1].type = "HTTPException" THEN pf_out.raised
                     ELSE << HTTPException(500) >> ]
    /\ pf_pc' = "finally"
    /\ UNCHANGED pf_temp
    /\ TempFileFrame

\* mutant: the temporary file is removed after a result only
PfFinally_AfterResult ==
    /\ pf_pc = "finally"
    /\ pf_temp' = IF pf_out.raised = << >> THEN FALSE ELSE pf_temp
    /\ pf_out' = [ pf_out EXCEPT !.status = IF pf_out.raised = << >> THEN 200
                                            ELSE pf_out.raised[1].status_code ]
    /\ pf_pc' = "ended"
    /\ TempFileFrame

\* `finally: if temp_path.exists(): temp_path.unlink()`, then the call ends with the
\* result or with the exception in flight
PfFinally ==
    /\ pf_pc = "finally"
    /\ pf_temp' = FALSE
    /\ pf_out' = [ pf_out EXCEPT !.status = IF pf_out.raised = << >> THEN 200
                                            ELSE pf_out.raised[1].status_code ]
    /\ pf_pc' = "ended"
    /\ TempFileFrame

NextTempFile == PfPreChecks \/ PfSaveFile \/ PfProcess \/ PfExcept \/ PfFinally

SpecTempFile == InitTempFile /\ [][NextTempFile]_vars

-----------------------------------------------------------------------------
(* GeminiVisionDocumentProcessor._extract_materiality_issues_with_timeout  *)
(* on the pages selected for analysis.  vs_pages holds, page by page, what *)
(* the awaited _extract_issues_from_page does: it answers with issues, the *)
(* 30 seconds pass, or it raises.  vs_seen lists the pages the loop tried. *)

MaxVisionPages == 3   \* pages handed to the extraction

EnoughIssues == 10    \* the loop stops when it has this many issues

FallbackPages == 3    \* the fallback looks at this many pages

NameESG == << "E", "S", "G" >>
NameEsgLower == << "e", "s", "g" >>
NameEsgPadded == << SP, "e", "s", "g", SP >>
NameGihu == << "gi", "hu" >>
NameBlank == << SP >>

VisionIssue(name) == [ issue_name |-> name ]

Repeated(names, n) == [ i \in 1..(n * Len(names)) |-> VisionIssue(names[((i - 1) % Len(names)) + 1]) ]

\* the answers of a page: none, names that differ by case and padding only, names
\* that are empty once trimmed, five issues, ten issues
PageAnswers ==
    { << >>,
      << VisionIssue(NameESG), VisionIssue(NameGihu) >>,
      << VisionIssue(NameEsgPadded), VisionIssue(NameEsgLower) >>,
      << VisionIssue(NameBlank), VisionIssue(<< >>) >>,
      Repeated(<< NameESG, NameGihu, NameEsgLower, NameBlank, NameEsgPadded >>, 1),
      Repeated(<< NameGihu, NameESG >>, 5) }

PageOutcomes ==
    { [ kind |-> "issues", issues |-> a ] : a \in PageAnswers } \cup
    { [ kind |-> k, issues |-> << >> ] : k \in { "timeout", "error" } }

\* what the fallback analysis of one page does: it raises, or answers
FallbackOutcomes ==
    { [ kind |-> "error", issues |-> << >> ],
      [ kind |-> "issues", issues |-> << >> ],
      [ kind |-> "issues", issues |-> << VisionIssue(NameEsgLower), VisionIssue(NameESG) >> ] }

\* issue.get("issue_name", "").strip().lower()
SeenName(issue) == Lower(Strip(issue.issue_name))

\* mutant: names are compared as written
deduplicate_issues_AsWritten(issues) ==
    SelectSeq([ i \in DOMAIN issues |-> [ at |-> i, issue |-> issues[i] ] ],
              LAMBDA x : /\ SeenName(x.issue) # << >>
                         /\ \A h \in 1..(x.at - 1) :
                               issues[h].issue_name # x.issue.issue_name)

\* _deduplicate_issues: the first issue of every non-empty name, with its position
deduplicate_issues(issues) ==
    SelectSeq([ i \in DOMAIN issues |-> [ at |-> i, issue |-> issues[i] ] ],
              LAMBDA x : /\ SeenName(x.issue) # << >>
                         /\ \A h \in 1..(x.at - 1) :
                               SeenName(issues[h]) # SeenName(x.issue))

\* the issues of a de-duplicated list
IssuesOf(unique) == [ i \in DOMAIN unique |-> unique[i].issue ]

VisionFrame ==
    UNCHANGED << pipeline_vars, fn_vars, rk_vars, dt_vars, mg_vars, sh_vars, up_vars,
                 tp_vars, sc_vars, qm_vars, pf_vars, vs_pages >>

InitVision ==
    /\ PipelineIdle /\ FunctionsIdle /\ RankIdle /\ DetectIdle /\ MergeIdle /\ SharedIdle
    /\ UploadIdle /\ TopIdle /\ ScanIdle /\ QuotaIdle /\ TempFileIdle
    /\ vs_pc = "loop"
    /\ vs_pages \in SeqsUpTo(PageOutcomes, MaxVisionPages)
    /\ vs_i = 1
    /\ vs_all = << >>
    /\ vs_seen = << >>
    /\ vs_fallback = FALSE
    /\ vs_result = << >>

\* one turn of the loop: the page answers and the issues are added (and the loop is
\* left when there are enough), or the wait times out or raises and the loop goes on
VsPage ==
    /\ vs_pc = "loop"
    /\ vs_i <= Len(vs_pages)
    /\ vs_seen' = Append(vs_seen, vs_i)
    /\ IF vs_pages[vs_i].kind = "issues"
       THEN /\ vs_all' = vs_all \o vs_pages[vs_i].issues
            /\ IF Len(vs_all') >= EnoughIssues
               THEN vs_pc' = "after_loop" /\ UNCHANGED vs_i
               ELSE vs_i' = vs_i + 1 /\ UNCHANGED vs_pc
       ELSE vs_i' = vs_i + 1 /\ UNCHANGED << vs_all, vs_pc >>
    /\ UNCHANGED << vs_fallback, vs_result >>
    /\ VisionFrame

\* the pages are exhausted
VsLoopEnds ==
    /\ vs_pc = "loop"
    /\ vs_i > Len(vs_pages)
    /\ vs_pc' = "after_loop"
    /\ UNCHANGED << vs_i, vs_all, vs_seen, vs_fallback, vs_result >>
    /\ VisionFrame

\* the issues are de-duplicated and returned, unless there is none and there are pages
VsDeduplicate ==
    /\ vs_pc = "after_loop"
    /\ LET unique_issues == IssuesOf(deduplicate_issues(vs_all))
       IN  IF Len(unique_issues) = 0 /\ Len(vs_pages) > 0
           THEN vs_pc' = "fallback" /\ UNCHANGED vs_result
           ELSE vs_pc' = "done" /\ vs_result' = unique_issues
    /\ UNCHANGED << vs_i, vs_all, vs_seen, vs_fallback >>
    /\ VisionFrame

\* _fallback_general_analysis(pages[:3]): what the pages answer, de-duplicated
VsFallback ==
    /\ vs_pc = "fallback"
    /\ \E answers \in [ 1..Min(FallbackPages, Len(vs_pages)) -> FallbackOutcomes ] :
          vs_result' = IssuesOf(deduplicate_issues(
                           Flatten([ i \in DOMAIN answers |-> answers[i].issues ])))
    /\ vs_fallback' = TRUE
    /\ vs_pc' = "done"
    /\ UNCHANGED << vs_i, vs_all, vs_seen >>
    /\ VisionFrame

NextVision == VsPage \/ VsLoopEnds \/ VsDeduplicate \/ VsFallback

SpecVision == InitVision /\ [][NextVision]_vars

-----------------------------------------------------------------------------
(* Properties *)

Results == { runs[i].result : i \in DOMAIN runs }

\* C1: determinism.  Every run of the pipeline on the same segment list, with the
\* same catalogs, returns the same result: the same detected industry, the same
\* ranked issues in the same order with the same confidences and scores, and the
\* same matched_keywords in the same order.
C1_Determinism == \A i, j \in DOMAIN runs : runs[i].result = runs[j].result

C3_RankingOrder ==
    \A r \in Results :
        /\ \A i \in DOMAIN r.issues : "priority_score" \in DOMAIN r.issues[i]
        /\ \A i \in 2..Len(r.issues) :
              r.issues[i - 1].priority_score >= r.issues[i].priority_score

PairOf(issue) == << issue.issue_name, issue.page_number >>

GroupOf(issues, pair) == { i \in DOMAIN issues : PairOf(issues[i]) = pair }

\* the first candidate of the pair's group that has the group's highest confidence
FirstBest(issues, pair) ==
    CHOOSE i \in GroupOf(issues, pair) :
        /\ \A j \in GroupOf(issues, pair) : issues[j].confidence <= issues[i].confidence
        /\ \A j \in GroupOf(issues, pair) : j < i => issues[j].confidence < issues[i].confidence

\* C4: deduplication.  The output of remove_duplicate_issues has at most one
\* candidate per (issue_name, page_number), and that candidate is the one of its
\* group with the highest confidence, the first in input order among equals.
C4_DedupKeepsFirstBest ==
    dd_pc # "start" =>
        /\ \A u, v \in DOMAIN dd_unique :
              PairOf(dd_unique[u]) = PairOf(dd_unique[v]) => u = v
        /\ \A u \in DOMAIN dd_unique :
              /\ GroupOf(dd_issues, PairOf(dd_unique[u])) # {}
              /\ dd_unique[u] = dd_issues[FirstBest(dd_issues, PairOf(dd_unique[u]))]

\* C4 witness: a lower candidate was replaced by the first of two equal best ones.
C4_TieAfterReplacement ==
    /\ dd_pc = "deduped"
    /\ \E h, i, j \in DOMAIN dd_issues :
          /\ h < i /\ i < j
          /\ PairOf(dd_issues[h]) = PairOf(dd_issues[i])
          /\ PairOf(dd_issues[i]) = PairOf(dd_issues[j])
          /\ dd_issues[h].confidence < dd_issues[i].confidence
          /\ dd_issues[i].confidence = dd_issues[j].confidence
          /\ dd_unique = << dd_issues[i] >>

\* C5: candidates with different (issue_name, page_number) are never collapsed:
\* every pair present in the input has exactly one survivor in the output.
C5_DedupKeepsEveryPair ==
    dd_pc # "start" =>
        \A i \in DOMAIN dd_issues :
            Cardinality({ u \in DOMAIN dd_unique :
                            PairOf(dd_unique[u]) = PairOf(dd_issues[i]) }) = 1

\* C5 witness: the same name on two pages, and two pairs whose name and page read
\* the same once written next to each other, all survive.
C5_DistinctPairsSurvive ==
    /\ dd_pc = "deduped"
    /\ Len(dd_unique) = 3
    /\ \E u, v \in DOMAIN dd_unique :
          /\ dd_unique[u].issue_name = dd_unique[v].issue_name
          /\ dd_unique[u].page_number # dd_unique[v].page_number
    /\ \E u, v \in DOMAIN dd_unique :
          /\ u # v
          /\ dd_unique[u].issue_name \o PyStr(dd_unique[u].page_number)
               = dd_unique[v].issue_name \o PyStr(dd_unique[v].page_number)

\* C6: dedup idempotence.  remove_duplicate_issues applied to its own output
\* returns that output: the same candidates in the same order.
C6_DedupIdempotent == dd_pc = "again" => dd_twice = dd_unique

\* C6 witness: the second call was made on an output of several candidates from
\* which the first call had removed a duplicate.
C6_SecondCallMade ==
    /\ dd_pc = "again"
    /\ Len(dd_unique) >= 2
    /\ Len(dd_unique) < Len(dd_issues)

\* C7: aggregate bounds.  For every ranked list, empty or not, and every
\* industry, the score of calculate_overall_confidence_enhanced is in [0, 1].
C7_AggregateBounds ==
    ag_pc = "done" => (0 <= ag_result.score /\ ag_result.score <= 100)

\* C7 witness: base and bonuses of a non-empty list add up to more than 1.
C7_ClampedAggregate ==
    /\ ag_pc = "done"
    /\ ag_args.issues # << >>
    /\ SumConfidence(ag_args.issues, 1) = Len(ag_args.issues) * Scale
    /\ ag_args.industry # GITA
    /\ ag_result.score = 100

\* C8: unknown industry in the priority ranker.  When the detected industry has no
\* entry in the weight table, every returned issue has
\* priority_score = confidence * 1.1.
C8_UnknownIndustryDefault ==
    \A r \in Results :
        r.detected_industry \notin DOMAIN ISSUE_PRIORITY_WEIGHTS =>
            \A i \in DOMAIN r.issues :
                /\ "priority_score" \in DOMAIN r.issues[i]
                /\ r.issues[i].priority_score = r.issues[i].confidence * 11

\* C9: unknown issue in the keyword resolver.  For an issue name that no category
\* of the loaded catalog lists, and any industry, get_dynamic_keywords_for_issue
\* returns no keyword.
C9_UnknownIssueEmpty ==
    (kw_pc = "done" /\ CategoriesWith(kw_args.issue_name) = << >>) => kw_result = << >>

\* C10: empty input.  A run on the empty segment list returns the fallback
\* industry, no issue, and the overall confidence of score 0.0, level low and
\* reason "no issues found".
C10_EmptyInput ==
    elements = << >> =>
        \A r \in Results :
            /\ r.detected_industry = GITA
            /\ r.issues = << >>
            /\ r.total_issues_found = 0
            /\ r.overall_confidence.score = 0
            /\ r.overall_confidence.level = NAJEUM
            /\ r.overall_confidence.reason = NO_ISSUES

\* C10 witness: the pipeline has run on the empty segment list.
C10_EmptyRun == elements = << >> /\ runs # << >>

\* C11: priority score formula.  Every candidate that apply_industry_priority hands
\* back carries priority_score = confidence * (1 + weight) when its issue has a weight
\* entry for the detected industry and confidence * 1.1 otherwise, and its confidence
\* is the one it came in with.
C11_PriorityFormula ==
    rk_pc = "done" =>
        /\ Len(rk_result) = Len(rk_args.issues)
        /\ \A k \in DOMAIN rk_result :
              LET r == rk_result[k]
                  weighted ==
                      /\ rk_args.industry \in DOMAIN ISSUE_PRIORITY_WEIGHTS
                      /\ r.issue_name \in DOMAIN ISSUE_PRIORITY_WEIGHTS[rk_args.industry]
              IN  /\ \E i \in DOMAIN rk_args.issues :
                        /\ rk_args.issues[i].issue_id = r.issue_id
                        /\ rk_args.issues[i].confidence = r.confidence
                  /\ "priority_score" \in DOMAIN r
                  /\ r.priority_score =
                        IF weighted
                        THEN r.confidence
                             * (10 + ISSUE_PRIORITY_WEIGHTS[rk_args.industry][r.issue_name])
                        ELSE r.confidence * 11

\* the step just taken raised the count of `keyword` by one and left the count of
\* every other detection keyword as it was
RaisedByOne(keyword) ==
    /\ dt_added = keyword
    /\ Count(dt_last.text, keyword) = Count(dt_prev.text, keyword) + 1
    /\ \A other \in DetectionKeywords \ { keyword } :
          Count(dt_last.text, other) = Count(dt_prev.text, other)

IsCoreIdentity(keyword) ==
    \E m \in DOMAIN CoreIdentityMarks : Contains(keyword, CoreIdentityMarks[m])

\* C12: industry-detection monotonicity.  One more occurrence of a core-identity
\* keyword of industry X, every other count unchanged, never lowers X's score, and the
\* detected industry changes to one other than X only if X's score rose strictly.
C12_DetectionMonotone ==
    \A x \in DOMAIN AUTO_INDUSTRY_DETECTION :
        \A keyword \in Range(AUTO_INDUSTRY_DETECTION[x].keywords) :
            (dt_added # << >> /\ IsCoreIdentity(keyword) /\ RaisedByOne(keyword)) =>
                /\ dt_last.industry_scores[x] >= dt_prev.industry_scores[x]
                /\ (/\ dt_last.detected_industry # dt_prev.detected_industry
                    /\ dt_last.detected_industry # AUTO_INDUSTRY_DETECTION[x].industry)
                   => dt_last.industry_scores[x] > dt_prev.industry_scores[x]

\* a sixth occurrence of "발전" is written: the keyword's points stay at the cap
C12_RaisedAtCap ==
    /\ dt_added = << "bal", "jeon" >>
    /\ RaisedByOne(dt_added)
    /\ Count(dt_prev.text, dt_added) = 5
    /\ dt_last.industry_scores = dt_prev.industry_scores
    /\ dt_last.detected_industry = JEONRYEOK

\* the word-overlap ratio |common| / min(|words1|, |words2|) of two names is above 0.3
OverlapAbove(name1, name2) ==
    LET words1 == SplitWords(Lower(name1))
        words2 == SplitWords(Lower(name2))
    IN  /\ words1 # { } /\ words2 # { }
        /\ 10 * Cardinality(words1 \cap words2)
               > 3 * Min(Cardinality(words1), Cardinality(words2))

\* the ratio |common| / |union| of two names is above 0.3
JaccardAbove(name1, name2) ==
    LET words1 == SplitWords(Lower(name1))
        words2 == SplitWords(Lower(name2))
    IN  /\ words1 # { } /\ words2 # { }
        /\ 10 * Cardinality(words1 \cap words2) > 3 * Cardinality(words1 \cup words2)

ExternalTagged(x) ==
    Get(x, "source", "") = "gemini" \/ Get(x, "extraction_method", "") = "gemini"

\* the candidates of `issues` that are the external candidate c
Occurrences(issues, c) ==
    Cardinality({ i \in DOMAIN issues :
                    /\ issues[i].issue_name = c.issue_name
                    /\ issues[i].confidence = c.confidence })

\* the externally tagged part of `merged` is `expected`, candidate for candidate
AppendedAre(merged, expected) ==
    LET appended == SelectSeq(merged, ExternalTagged)
    IN  /\ Len(appended) = Len(expected)
        /\ \A i \in DOMAIN expected :
              Occurrences(appended, expected[i]) = Occurrences(expected, expected[i])

MergeDone == mg_pc = "done" /\ ~Unusable(mg_args.gemini_result)

ExternalCandidates == mg_args.gemini_result.data.materiality_issues

KeptExternal(Similar(_, _)) ==
    LET internal == mg_args.unstructured_issues
        external == ExternalCandidates
        kept[j \in DOMAIN external] ==
            /\ ~\E i \in DOMAIN internal :
                    Similar(internal[i].issue_name, external[j].issue_name)
            /\ ~\E k \in 1..(j - 1) :
                    kept[k] /\ Similar(external[k].issue_name, external[j].issue_name)
    IN  { j \in DOMAIN external : kept[j] }

NonIncreasing(issues, ScoreOf(_)) ==
    \A i, j \in DOMAIN issues : i < j => ScoreOf(issues[i]) >= ScoreOf(issues[j])

\* the priority score ranking gives a candidate of a "전력" document
RankedScore(issue) == WithPriority(issue, ISSUE_PRIORITY_WEIGHTS[JEONRYEOK]).priority_score

\* C14: merge then re-rank.  The merged list that the caller is given is in ranked
\* order, non-increasing in the score (priority score, or confidence), and not the
\* internal list followed by the appended external candidates.
C14_MergedListRanked ==
    mg_pc = "done" =>
        \/ NonIncreasing(mg_result, RankedScore)
        \/ NonIncreasing(mg_result, LAMBDA x : Get(x, "confidence", 0))

\* C15: the catalogs are read-only.  Whatever pipeline runs a process makes, one after
\* the other or interleaved, the issue catalog stays the catalog that was loaded, and
\* the result of a run is the result of that run made alone.
C15_CatalogsReadOnly ==
    /\ UNIVERSAL_ESG_ISSUES = FullCatalog
    /\ \A w \in DOMAIN sh_pc :
          sh_pc[w] = "done" =>
              sh_local[w].result = extract_materiality_issues_enhanced(sh_elems[w], sh_seed)

\* a run that began while another was under way returns a non-empty result while the
\* other, which has made its resolver calls, is still under way
C15_RunsOverlap ==
    \E w1, w2 \in DOMAIN sh_pc :
        /\ w1 \in sh_local[w2].earlier
        /\ sh_pc[w1] \in { "scan", "ranked" } /\ sh_local[w1].issues # << >>
        /\ sh_pc[w2] = "done" /\ sh_local[w2].result.issues # << >>

\* C16: no-text error status.  When the fast strategy and the OCR strategy both yield
\* no elements, the caller of /upload-fast receives status 422, not 500.
C16_NoTextStatus ==
    (/\ up_pc = "responded"
     /\ up_elements = 0
     /\ up_pdf.fast \in { Fails, 0 }
     /\ up_pdf.ocr \in { Fails, 0 })
    => up_response = 422

Ids(issues) == { issues[i].issue_id : i \in DOMAIN issues }

\* the deduplicated candidates in confidence order, as the claim has them
ByConfidence == SortDesc(remove_duplicate_issues(tp_args.issues), "confidence")

FineScore(issue) ==
    LET industry == tp_args.detected_industry
    IN  IF /\ industry \in DOMAIN ISSUE_PRIORITY_WEIGHTS
           /\ issue.issue_name \in DOMAIN ISSUE_PRIORITY_WEIGHTS[industry]
        THEN issue.confidence * (10 + ISSUE_PRIORITY_WEIGHTS[industry][issue.issue_name])
        ELSE issue.confidence * 11

C18_AggregateOverReturned ==
    tp_pc = "done" =>
        /\ tp_result.overall_confidence =
              calculate_overall_confidence_enhanced(
                  tp_result.issues, << >>, tp_args.detected_industry)
        /\ tp_result.issues # << >> =>
              tp_result.overall_confidence.issues_found = Len(tp_result.issues)

Keys == { << tp_args.issues[i].issue_name, tp_args.issues[i].page_number >> :
            i \in DOMAIN tp_args.issues }

BestConfidence(key) ==
    CHOOSE c \in { tp_args.issues[i].confidence : i \in DOMAIN tp_args.issues } :
        /\ \E i \in DOMAIN tp_args.issues :
              /\ << tp_args.issues[i].issue_name, tp_args.issues[i].page_number >> = key
              /\ tp_args.issues[i].confidence = c
        /\ \A i \in DOMAIN tp_args.issues :
              << tp_args.issues[i].issue_name, tp_args.issues[i].page_number >> = key
                  => tp_args.issues[i].confidence <= c

\* C18 (amended): the aggregate is computed over all deduplicated candidates, before
\* the cut to 20.  Its issue count is total_issues_found, the number of distinct
\* (issue, page) pairs, of which the returned list holds the first 20; diversity and
\* the high-confidence count are taken over all of them.
C18_AggregateOverAll ==
    (tp_pc = "done" /\ tp_args.issues # << >>) =>
        /\ tp_result.overall_confidence.issues_found = Cardinality(Keys)
        /\ tp_result.total_issues_found = Cardinality(Keys)
        /\ Len(tp_result.issues) = Min(Cardinality(Keys), 20)
        /\ tp_result.overall_confidence.category_diversity =
              Cardinality({ tp_args.issues[i].category : i \in DOMAIN tp_args.issues })
        /\ tp_result.overall_confidence.high_confidence_count =
              Cardinality({ k \in Keys : BestConfidence(k) * 10 > 7 * Scale })

\* 22 deduplicated candidates of which 20 are returned: the aggregate counts 22
C18_MoreFoundThanReturned ==
    /\ tp_pc = "done"
    /\ Len(tp_result.issues) = 20
    /\ tp_result.overall_confidence.issues_found = 22

\* C19: level agrees with reported score.  In every non-empty result the level is high
\* iff the reported (two-decimal) score is >= 0.8, medium iff 0.6 <= score < 0.8, and
\* low iff score < 0.6.
C19_LevelAgreesWithScore ==
    (ag_pc = "done" /\ ag_args.issues # << >>) =>
        /\ ag_result.level = NOPEUM <=> ag_result.score >= 80
        /\ ag_result.level = JUNGGAN <=> (60 <= ag_result.score /\ ag_result.score < 80)
        /\ ag_result.level = NAJEUM <=> ag_result.score < 60

\* the claimed final score of the aggregator's arguments, times 100 * n * Scale:
\* mean + industry bonus + diversity bonus + quality bonus, at most 1.0
ClaimedFinal ==
    LET issues == ag_args.issues
        n == Len(issues)
        above == { i \in DOMAIN issues : issues[i].confidence * 10 > 7 * Scale }
        categories == { issues[i].category : i \in DOMAIN issues }
        mean == 100 * SumConfidence(issues, 1)
        industry_part == IF ag_args.industry = GITA THEN 0 ELSE 10 * n * Scale
        diversity_part ==
            IF Cardinality(categories) >= 3 THEN 15 * n * Scale
            ELSE 5 * Cardinality(categories) * n * Scale
        quality_part == 10 * Cardinality(above) * Scale
        total == mean + industry_part + diversity_part + quality_part
    IN  IF total > 100 * n * Scale THEN 100 * n * Scale ELSE total

\* C20: aggregate formula.  For a non-empty list the final score is
\* min(1.0, mean confidence + (0.1 unless the industry is the fallback tag)
\* + min(0.05 * distinct categories, 0.15) + 0.1 * (candidates with confidence
\* strictly above 0.7) / total); the result reports it rounded to two decimals and
\* takes the level from it.
C20_AggregateFormula ==
    (ag_pc = "done" /\ ag_args.issues # << >>) =>
        LET n == Len(ag_args.issues)
        IN  /\ ag_result.score = RoundDiv(ClaimedFinal, n * Scale)
            /\ ag_result.level = NOPEUM <=> ClaimedFinal >= 80 * n * Scale
            /\ ag_result.level = NAJEUM <=> ClaimedFinal < 60 * n * Scale

\* a list with one candidate at exactly 0.7, which does not count as high, and one
\* above 0.7, which does, for a detected industry, below the clamp
C20_ExactlySeventy ==
    /\ ag_pc = "done"
    /\ ag_args.industry # GITA
    /\ \E i \in DOMAIN ag_args.issues : ag_args.issues[i].confidence = 70 * Hundredth
    /\ ag_result.high_confidence_count = 1
    /\ ag_result.score < 100

\* the places of a text where a keyword stands
Places(text, keyword) ==
    { i \in 1..(Len(text) - Len(keyword) + 1) :
        SubSeq(text, i, i + Len(keyword) - 1) = keyword }

\* the one tier of a keyword, by its number of occurrences
TierPoints(keyword, count) ==
    IF IsCoreIdentity(keyword) THEN (IF count * 5 < 25 THEN count * 5 ELSE 25)
    ELSE IF Len(keyword) >= 4 THEN (IF count * 3 < 15 THEN count * 3 ELSE 15)
    ELSE (IF count * 2 < 10 THEN count * 2 ELSE 10)

RECURSIVE TierTotal(_, _, _)
TierTotal(text, keywords, i) ==
    IF i = 0 THEN 0
    ELSE TierTotal(text, keywords, i - 1)
         + TierPoints(keywords[i], Cardinality(Places(text, keywords[i])))

\* C21: industry selection.  Every industry's score is the sum over its keywords of the
\* keyword's one tier; the industry returned is the one of maximum total, the first
\* declared among tied maxima, and the fallback tag exactly when every total is 0.
C21_IndustrySelection ==
    LET totals == [ x \in DOMAIN AUTO_INDUSTRY_DETECTION |->
                      TierTotal(dt_last.text, AUTO_INDUSTRY_DETECTION[x].keywords,
                                Len(AUTO_INDUSTRY_DETECTION[x].keywords)) ]
    IN  /\ dt_last.industry_scores = totals
        /\ dt_last.detected_industry = GITA <=> \A x \in DOMAIN totals : totals[x] = 0
        /\ \A x \in DOMAIN totals :
              dt_last.detected_industry = AUTO_INDUSTRY_DETECTION[x].industry <=>
                  /\ totals[x] > 0
                  /\ \A y \in DOMAIN totals : totals[y] <= totals[x]
                  /\ \A y \in 1..(x - 1) : totals[y] < totals[x]

\* two industries tie at a positive maximum, the second through keywords of two tiers
\* ("은행" 2 points, "금융지주" 3 points), and the first declared is returned
C21_TieAtMaximum ==
    /\ dt_last.industry_scores[1] = dt_last.industry_scores[2]
    /\ dt_last.industry_scores[1] = 5
    /\ Places(dt_last.text, << "eun", "haeng" >>) # { }
    /\ Places(dt_last.text, << "geum", "yung", "ji", "ju" >>) # { }
    /\ dt_last.detected_industry = AUTO_INDUSTRY_DETECTION[1].industry

\* some term of a list stands somewhere in the text
Stands(text, terms) == \E t \in DOMAIN terms : Places(text, terms[t]) # { }

\* the five bonuses of the claimed formula for the scorer's arguments, in hundredths
ClaimedBonuses ==
    (IF Places(cf_args.text, cf_args.issue_name) # { } THEN 30 ELSE 0)
    + (IF Stands(cf_args.text, materiality_indicators) THEN 20 ELSE 0)
    + (IF Stands(cf_args.text, table_indicators) THEN 15 ELSE 0)
    + (IF /\ cf_args.industry \in DOMAIN ISSUE_PRIORITY_WEIGHTS
          /\ cf_args.issue_name \in DOMAIN ISSUE_PRIORITY_WEIGHTS[cf_args.industry]
       THEN ISSUE_PRIORITY_WEIGHTS[cf_args.industry][cf_args.issue_name]
       ELSE 0)
    + (IF Range(cf_args.matched_keywords) \cap Range(high_quality_keywords) # { }
       THEN 10 ELSE 0)

\* C22: confidence formula.  For resolved keywords R and matched keywords M the
\* confidence is min(1.0, 0.5 * |M| / |R| + 0.3 [name in text] + 0.2 [context term in
\* text] + 0.15 [table indicator in text] + 0.1 * weight + 0.1 [a matched keyword is a
\* high-quality term]), the weight being 0 without entry; with the name, a context
\* term and a table indicator in the text it is at least 0.65.
C22_ConfidenceFormula ==
    (cf_pc = "done" /\ cf_args.all_keywords # << >>) =>
        LET r == Len(cf_args.all_keywords)
            sum_r == 50 * Hundredth * Len(cf_args.matched_keywords)
                     + r * Hundredth * ClaimedBonuses
        IN  /\ r * cf_confidence = (IF sum_r > r * Scale THEN r * Scale ELSE sum_r)
            /\ (/\ Places(cf_args.text, cf_args.issue_name) # { }
                /\ Stands(cf_args.text, materiality_indicators)
                /\ Stands(cf_args.text, table_indicators))
               => cf_confidence >= 65 * Hundredth

\* a call with the issue name, a context term and a table indicator in the text and one
\* matched keyword has returned a confidence between 0.65 and 1
C22_ThreeTextBonuses ==
    /\ cf_pc = "done"
    /\ Places(cf_args.text, cf_args.issue_name) # { }
    /\ Stands(cf_args.text, materiality_indicators)
    /\ Stands(cf_args.text, table_indicators)
    /\ Len(cf_args.matched_keywords) = 1
    /\ cf_confidence > 65 * Hundredth
    /\ cf_confidence < Scale

\* the catalog entries of the resolver's issue, over all categories
EntriesOfIssue ==
    { e \in UNION { Range(UNIVERSAL_ESG_ISSUES[c].issues) : c \in DOMAIN UNIVERSAL_ESG_ISSUES } :
        e.issue_name = kw_args.issue_name }

\* C23: keyword resolution.  For an issue of the catalog the resolver returns exactly
\* its core keywords, its advanced keywords, its variants for the industry if it has
\* any, and the industry's business keywords if the issue is one of the two designated
\* ones and the industry has a profile; no keyword twice and nothing else.
C23_KeywordResolution ==
    (kw_pc = "done" /\ EntriesOfIssue # { }) =>
        \E e \in EntriesOfIssue :
            /\ Range(kw_result) =
                  Range(e.core_keywords) \cup Range(e.advanced_keywords)
                  \cup (IF kw_args.industry \in DOMAIN e.industry_variants
                        THEN Range(e.industry_variants[kw_args.industry]) ELSE { })
                  \cup (IF /\ kw_args.issue_name \in { ISSUE_GOGAEK, ISSUE_GONGGEUPMANG }
                           /\ kw_args.industry \in DOMAIN INDUSTRY_SPECIFIC_KEYWORDS
                        THEN Range(INDUSTRY_SPECIFIC_KEYWORDS[kw_args.industry].business_keywords)
                        ELSE { })
            /\ Cardinality(Range(kw_result)) = Len(kw_result)

\* a designated issue of the catalog is resolved for an industry with a profile, and a
\* keyword collected twice is returned once
C23_DuplicateCollected ==
    /\ kw_pc = "done"
    /\ EntriesOfIssue # { }
    /\ kw_args.issue_name \in { ISSUE_GOGAEK, ISSUE_GONGGEUPMANG }
    /\ kw_args.industry \in DOMAIN INDUSTRY_SPECIFIC_KEYWORDS
    /\ Len(kw_result) < Len(CollectedKeywords(kw_args.issue_name, kw_args.industry))

\* the three conditions of the pre-filter, as the claim has them
Qualifies(text) ==
    \/ Stands(text, MATERIALITY_KEYWORDS)
    \/ Stands(text, basic_esg_keywords)
    \/ Len(Strip(text)) >= 20

\* the issues of the catalog with a resolved keyword standing in the text
IssuesNamedIn(text, industry) ==
    { n \in { CatalogIssues[k].issue_name : k \in DOMAIN CatalogIssues } :
        \E kw \in Range(get_dynamic_keywords_for_issue(n, industry, 0)) :
            Places(text, kw) # { } }

\* the collected candidates that carry a segment's excerpt and page
CandidatesOf(issues, element) ==
    { i \in DOMAIN issues :
        /\ issues[i].content = Take(element.text, 500)
        /\ issues[i].page_number = element.page_number }

\* C24: pre-filter.  A segment is scanned iff it has a materiality vocabulary term or a
\* basic ESG term or a trimmed length of at least 20: a segment failing all three has
\* no candidate among the collected ones whatever keywords it contains, and a segment
\* passing one has a candidate for every issue it names.
C24_PreFilter ==
    sc_pc = "done" =>
        \A e \in DOMAIN sc_args.elements :
            LET element == sc_args.elements[e]
                mine == CandidatesOf(sc_result.issues, element)
            IN  IF Qualifies(element.text)
                THEN \A n \in IssuesNamedIn(element.text, sc_result.detected_industry) :
                         \E i \in mine : sc_result.issues[i].issue_name = n
                ELSE mine = { }

\* a list of two segments has been scanned: one has 20 characters or more but 19 once
\* trimmed, names an issue and has no candidate; the other passes by its length alone
\* and has one
C24_SkippedAndScanned ==
    /\ sc_pc = "done"
    /\ \E e1, e2 \in DOMAIN sc_args.elements :
          LET skipped == sc_args.elements[e1]
              scanned == sc_args.elements[e2]
          IN  /\ Len(skipped.text) >= 20
              /\ ~Qualifies(skipped.text)
              /\ IssuesNamedIn(skipped.text, sc_result.detected_industry) # { }
              /\ CandidatesOf(sc_result.issues, skipped) = { }
              /\ Len(Strip(scanned.text)) = 20
              /\ ~Stands(scanned.text, MATERIALITY_KEYWORDS)
              /\ ~Stands(scanned.text, basic_esg_keywords)
              /\ CandidatesOf(sc_result.issues, scanned) # { }

\* the resolved keywords of an issue in the scanned list's run
ResolvedIn(issue_name) ==
    Range(get_dynamic_keywords_for_issue(issue_name, sc_result.detected_industry,
                                         sc_args.seed))

\* the segments of the scanned list that qualify, name the issue, and have the given
\* first 500 characters and page
EmittingSegments(issue_name, excerpt, page) ==
    { e \in DOMAIN sc_args.elements :
        LET text == sc_args.elements[e].text
        IN  /\ Qualifies(text)
            /\ \E kw \in ResolvedIn(issue_name) : Places(text, kw) # { }
            /\ SubSeq(text, 1, IF Len(text) < 500 THEN Len(text) ELSE 500) = excerpt
            /\ sc_args.elements[e].page_number = page }

\* C25: match emission.  For each qualifying segment and each (category, issue) of the
\* catalog exactly one candidate is emitted iff a resolved keyword stands in the segment
\* text: the candidates of an issue with a given excerpt and page are as many as the
\* qualifying segments that name the issue and have that excerpt and page.  Every
\* candidate has a non-empty matched_keywords within the resolved keywords, an excerpt
\* of at most 500 characters that starts a segment's text, that segment's page, and the
\* detected industry as tag.
C25_MatchEmission ==
    sc_pc = "done" =>
        LET issues == sc_result.issues
        IN  /\ \A k \in DOMAIN CatalogIssues, e \in DOMAIN sc_args.elements :
                  LET n == CatalogIssues[k].issue_name
                      excerpt == Take(sc_args.elements[e].text, 500)
                      page == sc_args.elements[e].page_number
                  IN  Cardinality({ i \in DOMAIN issues :
                                      /\ issues[i].issue_name = n
                                      /\ issues[i].content = excerpt
                                      /\ issues[i].page_number = page })
                          = Cardinality(EmittingSegments(n, excerpt, page))
            /\ \A i \in DOMAIN issues :
                  /\ issues[i].matched_keywords # << >>
                  /\ Range(issues[i].matched_keywords) \subseteq ResolvedIn(issues[i].issue_name)
                  /\ Len(issues[i].content) <= 500
                  /\ issues[i].industry = sc_result.detected_industry
                  /\ \E e \in EmittingSegments(issues[i].issue_name, issues[i].content,
                                                issues[i].page_number) :
                        \E k \in DOMAIN CatalogIssues :
                            /\ CatalogIssues[k].issue_name = issues[i].issue_name
                            /\ Places(CatalogIssues[k].category,
                                      issues[i].category) # { }

\* a segment longer than 500 characters has a candidate whose excerpt is cut short of
\* the one keyword that was matched, next to a second segment with a candidate of the
\* same issue
C25_CutExcerpt ==
    /\ sc_pc = "done"
    /\ \E i, j \in DOMAIN sc_result.issues :
          /\ i # j
          /\ sc_result.issues[i].issue_name = sc_result.issues[j].issue_name
          /\ Len(sc_result.issues[i].content) = 500
          /\ \A m \in DOMAIN sc_result.issues[i].matched_keywords :
                Places(sc_result.issues[i].content,
                       sc_result.issues[i].matched_keywords[m]) = { }
          /\ \E e \in DOMAIN sc_args.elements :
                /\ Len(sc_args.elements[e].text) > 500
                /\ Take(sc_args.elements[e].text, 500) = sc_result.issues[i].content

\* C26: daily request quota under concurrency.  When the requests in flight are
\* uploads, each passing check_usage_limit before it is processed and calling
\* record_api_call after, today's requests_count never exceeds daily_request_limit.
C26_QuotaUnderConcurrency ==
    (qm_usage # << >> /\ \A c \in DOMAIN qm_req : qm_req[c].kind = "upload") =>
        qm_usage[1].requests_count <= qm_limits.daily_request_limit

\* C27: no lost usage records.  Every call of record_api_call that has returned has
\* increased today's requests_count by 1, tokens_used by its input and output tokens
\* and estimated_cost by its cost, whatever other calls and resets run at the same time.
C27_NoLostRecord ==
    \A c \in DOMAIN qm_req :
        (qm_pc[c] = "done" /\ qm_req[c].kind # "reset") =>
            /\ qm_req[c].recorded
            /\ qm_req[c].after.requests_count = qm_req[c].before.requests_count + 1
            /\ qm_req[c].after.tokens_used =
                   qm_req[c].before.tokens_used + qm_req[c].input_tokens
                                                + qm_req[c].output_tokens
            /\ qm_req[c].after.estimated_cost =
                   qm_req[c].before.estimated_cost + CostOf(qm_req[c])

\* the conditions of refusal for a request, on the usage its check has seen
OverQuota(req, limits) ==
    \/ req.seen.requests_count >= limits.daily_request_limit
    \/ req.seen.estimated_cost >= limits.daily_cost_limit
    \/ /\ req.kind = "text"
       /\ req.seen.estimated_cost
              + req.input_tokens * (IF req.model = FREE_MODEL THEN 0 ELSE 1)
            > limits.daily_cost_limit

\* C28: quota rejection leaves the state unchanged.  A request whose check finds
\* today's requests_count at the request limit, or the cost at the cost limit, or (in
\* pre_request_check) the cost plus the request's estimated cost above the cost limit,
\* is refused: no processing and no external call is made for it, it records nothing,
\* and the three counters are after the refusal what they were before.  A request
\* that goes on has met none of the three conditions.
C28_RefusalLeavesUsage ==
    \A c \in DOMAIN qm_req :
        (qm_req[c].kind # "reset" /\ qm_pc[c] # "start") =>
            IF OverQuota(qm_req[c], qm_limits)
            THEN /\ qm_pc[c] = "refused"
                 /\ ~qm_req[c].worked
                 /\ ~qm_req[c].recorded
                 /\ qm_req[c].after = qm_req[c].before
                 /\ qm_req[c].before = qm_req[c].seen
            ELSE qm_pc[c] # "refused"

\* a text extraction is refused on its estimated cost alone, with requests and cost
\* both under their limits, after another request has recorded its call
C28_RefusedOnEstimate ==
    \E c, d \in DOMAIN qm_req :
        /\ qm_pc[c] = "refused"
        /\ qm_req[c].kind = "text"
        /\ qm_req[c].seen.requests_count < qm_limits.daily_request_limit
        /\ qm_req[c].seen.estimated_cost < qm_limits.daily_cost_limit
        /\ qm_req[d].recorded
        /\ qm_req[c].seen = qm_req[d].after

\* C29: the temporary upload is always removed.  When process_uploaded_file has ended
\* the temporary file does not exist, whether the call ended with a result, with an
\* HTTPException raised inside (422, 501, 500) or with any other exception, which it
\* turns into a 500.
C29_TempFileRemoved ==
    pf_pc = "ended" => (~pf_temp /\ pf_out.status \in { 200, 400, 413, 422, 429, 500, 501 })

\* the call has ended with the 422 of _process_pdf after the temporary file was written
C29_RemovedAfterNoText ==
    /\ pf_pc = "ended"
    /\ pf_out.created
    /\ pf_out.status = 422
    /\ pf_in.save = "written"

\* the issues the pages before page k have answered with
RECURSIVE AnsweredBefore(_)
AnsweredBefore(k) ==
    IF k <= 1 THEN 0
    ELSE AnsweredBefore(k - 1)
         + (IF vs_pages[k - 1].kind = "issues" THEN Len(vs_pages[k - 1].issues) ELSE 0)

\* C30: per-page failure isolation in the vision path.  A page that times out or raises
\* does not end the loop: the pages are tried in order, and page k is tried exactly
\* when the pages before it have answered with fewer than 10 issues together.  The
\* fallback analysis runs iff no issue with a name is left after the first pass and
\* there is at least one page.  The returned list has no two issues with the same
\* trimmed, lower-cased name.
C30_PageIsolation ==
    /\ \A j \in DOMAIN vs_seen : vs_seen[j] = j
    /\ vs_pc \in { "after_loop", "fallback", "done" } =>
           \A k \in DOMAIN vs_pages :
               (k \in DOMAIN vs_seen) <=> (AnsweredBefore(k) < 10)
    /\ vs_pc = "done" =>
           /\ vs_fallback <=>
                  /\ Len(vs_pages) > 0
                  /\ \A i \in DOMAIN vs_all : SeenName(vs_all[i]) = << >>
           /\ \A i, j \in DOMAIN vs_result :
                  SeenName(vs_result[i]) = SeenName(vs_result[j]) => i = j

\* the first page timed out, the second brought the issues to 10 and the third was not
\* tried; the returned list is shorter than the collected one
C30_TimeoutThenEarlyStop ==
    /\ vs_pc = "done"
    /\ Len(vs_pages) = 3
    /\ vs_pages[1].kind = "timeout"
    /\ vs_seen = << 1, 2 >>
    /\ Len(vs_all) >= 10
    /\ Len(vs_result) < Len(vs_all)
    /\ ~vs_fallback

=============================================================================
